---- MODULE Spec2Model ----
(***************************************************************************)
(* Model of the RAW conversion worker (src/raw-worker.js): the message     *)
(* handler self.onmessage, the lazily loaded collaborator modules, the     *)
(* decoder result normalisation and the EXR bridge encodeEXRFromRGB16.     *)
(*                                                                         *)
(* One activation of the async handler is one "job".  A job runs in        *)
(* synchronous segments separated by its awaits; every action below is one *)
(* such segment, from the event that resumes the job to its next await or  *)
(* to the end of the handler.  JavaScript values are written as their      *)
(* source text ("undefined", "0", "''", "7").                              *)
(***************************************************************************)
EXTENDS Integers, Sequences, FiniteSets, TLC

VARIABLES pc, job, posted, moduleRef, libRawLoads,
          exrModulePromise, exrLoads, exrLoadResp,
          tiff, sink, exr, caches

vars == <<pc, job, posted, moduleRef, libRawLoads,
          exrModulePromise, exrLoads, exrLoadResp,
          tiff, sink, exr, caches>>

\* the handler's own state, and the state of the functions that are also
\* exercised on their own (TIFF encoder, MemSink, engine wrapper, caches)
workerVars == <<pc, job, posted, moduleRef, libRawLoads,
                exrModulePromise, exrLoads, exrLoadResp>>
unitVars == <<tiff, sink, exr, caches>>

\* ---------------------------------------------------------------- bounds
MaxJobs == 2
MaxDim == 2
MaxOutSize == 2
MaxPtr == 2

Jobs == 1..MaxJobs

\* ------------------------------------------------------- request values
Cmds == {"process", "other"}
JobIdValues == {"undefined", "0", "''", "7"}
PipelineValues == {"", "ap0-linear", "acescct", "arri-logc4", "bogus"}
FormatValues == {"", "tiff", "exr", "png"}

\* JavaScript truthiness of the modelled values (used by || and by if).
Truthy(v) == v \notin {"undefined", "0", "''", ""}

\* a || b on numbers, a missing field read as 0
JsOr(a, b) == IF a # 0 THEN a ELSE b

\* line 81: Module.getValue(pSize, 'i32') >>> 0.  The cell holds a size
\* below 2^31 (the engine's memory is smaller), and on such a value the
\* conversion to an unsigned 32-bit number changes nothing.
ReadSize(cell) == cell

\* ------------------------------------------------------------- messages
Msg(j, jid, type, stage, error, out) ==
    [job |-> j, jobId |-> jid, type |-> type, stage |-> stage,
     error |-> error, out |-> out]

\* ---------------------------------------------------- per-job local state
NoImg == [kind |-> "none", width |-> 0, height |-> 0,
          sizesW |-> 0, sizesH |-> 0, len |-> 0]
NoMeta == [kind |-> "none", width |-> 0, height |-> 0,
           sizesW |-> 0, sizesH |-> 0]
NoView == [kind |-> "null", len |-> 0]
NoPixels == [len |-> 0, transformed |-> "none"]
NoEnc == [fmt |-> "none", width |-> 0, height |-> 0, len |-> 0,
          transformed |-> "none", pipeline |-> "?"]
NoAlloc == [pPixels |-> "none", pSize |-> "none", ptr |-> "none"]
NoEngine == [kind |-> "none", ptr |-> 0, cell |-> 0, seed |-> 0]
NoEnv == [libraw |-> "n/a", open |-> "n/a", exrWould |-> "n/a"]

NewJob ==
    [cmd |-> "?", jobId |-> "undefined", pipeline |-> "?", format |-> "?",
     err |-> "", errAt |-> 0, msgs |-> <<>>, trace |-> <<>>,
     instCreated |-> FALSE, instCalls |-> <<>>,
     img |-> NoImg, meta |-> NoMeta, width |-> 0, height |-> 0,
     view |-> NoView, pixels |-> NoPixels, enc |-> NoEnc,
     alloc |-> NoAlloc, engine |-> NoEngine, out |-> <<>>,
     env |-> NoEnv]

\* ------------------------------------------------- handler building blocks
\* Every block takes the job's local state c and returns it changed.  A block
\* that follows a throw inside the try is not executed: c.err holds the
\* message of the exception on its way to the catch clause.

\* throw new Error(msg) inside the try block
Throw(c, msg) ==
    IF c.err # "" THEN c
    ELSE [c EXCEPT !.err = msg, !.errAt = Len(c.trace)]

\* progress(stage): postMessage({ jobId, type: 'progress', stage })
Progress(c, j, stage) ==
    IF c.err # "" THEN c
    ELSE [c EXCEPT !.msgs = Append(@, Msg(j, c.jobId, "progress", stage, "", <<>>))]

\* a stage of the job starts executing
Stage(c, name) ==
    IF c.err # "" THEN c ELSE [c EXCEPT !.trace = Append(@, name)]

\* statement sequencing: the next statement F runs on the state c that the
\* statements before it have produced
Then(c, F(_)) == CHOOSE r \in {F(x) : x \in {c}} : TRUE

\* ------------------------------------------------ dimension resolution
\* img && (img.width || (img.sizes && img.sizes.width)), and the same for
\* metadata: null, undefined and the typed arrays have neither field.
ObjWidth(o) == IF o.kind \in {"none", "null", "absent", "throws", "asyncRejects"}
               THEN 0 ELSE JsOr(o.width, o.sizesW)
ObjHeight(o) == IF o.kind \in {"none", "null", "absent", "throws", "asyncRejects"}
                THEN 0 ELSE JsOr(o.height, o.sizesH)

\* if (!width || !height) : metadata is consulted
NeedsMeta(img) == ObjWidth(img) = 0 \/ ObjHeight(img) = 0

\* a thenable returned by metadata(true) is awaited
MetaIsThenable(m) == m.kind \in {"async", "asyncRejects"}

\* lines 332-345
ResolveDimensions(c, m) ==
    IF c.err # "" THEN c
    ELSE LET w0 == ObjWidth(c.img)
             h0 == ObjHeight(c.img)
             consulted == (w0 = 0 \/ h0 = 0)
             w == IF consulted THEN JsOr(ObjWidth(m), w0) ELSE w0
             h == IF consulted THEN JsOr(ObjHeight(m), h0) ELSE h0
             d == [c EXCEPT !.width = w, !.height = h,
                            !.meta = IF consulted THEN m ELSE @,
                            !.instCalls = IF consulted /\ m.kind # "absent"
                                          THEN Append(@, "metadata") ELSE @]
         IN IF w = 0 \/ h = 0 THEN Throw(d, "Missing dimensions") ELSE d

\* ------------------------------------------------- buffer normalisation
IsTypedArray(kind) == kind \in {"U8", "U16"}
\* img && typeof img === 'object' holds of every non-null result
TypeofObject(kind) == kind \in {"U8", "U16", "ObjU8", "ObjU16", "ObjAB", "ObjNone", "AB"}
\* img.data || img.buffer || img.bytes
DataBufKind(kind) ==
    CASE kind = "ObjU8" -> "U8"
      [] kind = "ObjU16" -> "U16"
      [] kind = "ObjAB" -> "AB"
      [] OTHER -> "undefined"

\* lines 349-362
NormalizeView(c) ==
    IF c.err # "" THEN c
    ELSE LET k == c.img.kind
             view ==
               IF IsTypedArray(k) THEN [kind |-> k, len |-> c.img.len]
               ELSE IF TypeofObject(k)
                    THEN IF IsTypedArray(DataBufKind(k))
                         THEN [kind |-> DataBufKind(k), len |-> c.img.len]
                         ELSE IF DataBufKind(k) = "AB"
                              THEN [kind |-> "U8", len |-> c.img.len]
                              ELSE NoView
                    ELSE IF k = "AB" THEN [kind |-> "U8", len |-> c.img.len]
                         ELSE NoView
         IN IF view.kind = "null"
            THEN Throw(c, "Unexpected imageData type")
            ELSE [c EXCEPT !.view = view]

\* lines 365-388 with the 8-bit branch widening the samples instead of
\* throwing: the upcast the handler refuses
EnforceU16Widening(c) ==
    IF c.err # "" THEN c
    ELSE IF c.view.kind = "U16"
         THEN IF c.view.len # c.width * c.height * 3
              THEN Throw(c, "Unexpected data length for 16-bit image")
              ELSE [c EXCEPT !.pixels = [len |-> c.view.len, transformed |-> "none"]]
         ELSE IF c.view.len = c.width * c.height * 3 * 2
              THEN [c EXCEPT !.pixels = [len |-> c.view.len \div 2,
                                         transformed |-> "none"]]
              ELSE IF c.view.len = c.width * c.height * 3
                   THEN [c EXCEPT !.pixels = [len |-> c.view.len,
                                              transformed |-> "none"]]
                   ELSE Throw(c, "Unexpected imageData byte length")

\* lines 365-388 without the length test of line 367
EnforceU16AnyLength(c) ==
    IF c.err # "" THEN c
    ELSE IF c.view.kind = "U16"
         THEN [c EXCEPT !.pixels = [len |-> c.view.len, transformed |-> "none"]]
         ELSE IF c.view.len = c.width * c.height * 3 * 2
              THEN [c EXCEPT !.pixels = [len |-> c.view.len \div 2,
                                         transformed |-> "none"]]
              ELSE IF c.view.len = c.width * c.height * 3
                   THEN Throw(c, "Decoder returned 8-bit data; 16-bit required")
                   ELSE Throw(c, "Unexpected imageData byte length")

\* lines 365-388
EnforceU16(c) ==
    IF c.err # "" THEN c
    ELSE IF c.view.kind = "U16"
         THEN IF c.view.len # c.width * c.height * 3
              THEN Throw(c, "Unexpected data length for 16-bit image")
              ELSE [c EXCEPT !.pixels = [len |-> c.view.len, transformed |-> "none"]]
         ELSE LET expected16ByteLen == c.width * c.height * 3 * 2
                  expected8ByteLen == c.width * c.height * 3
              IN IF c.view.len = expected16ByteLen
                 THEN [c EXCEPT !.pixels = [len |-> c.view.len \div 2,
                                            transformed |-> "none"]]
                 ELSE IF c.view.len = expected8ByteLen
                      THEN Throw(c, "Decoder returned 8-bit data; 16-bit required")
                      ELSE Throw(c, "Unexpected imageData byte length")

\* ---------------------------------------------------------- transform
\* lines 392-402: which in-place transform runs for a request's pipeline
TransformFor(pipeline) ==
    LET p == IF Truthy(pipeline) THEN pipeline ELSE "ap0-linear"
    IN IF p = "acescct" THEN "apply709ToACEScctInPlace"
       ELSE IF p = "arri-logc4" THEN "apply709ToAWG4LogC4InPlace"
       ELSE "applyBT709DecodeInPlace"

Transform(c, pipeline) ==
    IF c.err # "" THEN c
    ELSE [c EXCEPT !.pipeline = IF Truthy(pipeline) THEN pipeline ELSE "ap0-linear",
                   !.pixels.transformed = TransformFor(pipeline)]

\* line 405: (data && data.format) || 'tiff'
SelectFormat(c, format) ==
    IF c.err # "" THEN c
    ELSE [c EXCEPT !.format = IF Truthy(format) THEN format ELSE "tiff"]

\* an encoder is called with the job's buffer (lines 409 and 419)
CallEncoder(c, fmt) ==
    IF c.err # "" THEN c
    ELSE [c EXCEPT !.enc = [fmt |-> fmt, width |-> c.width, height |-> c.height,
                            len |-> c.pixels.len,
                            transformed |-> c.pixels.transformed,
                            pipeline |-> c.pipeline]]

\* -------------------------------------------------- the end of the handler
\* lines 425-427: best-effort cleanup, each call in its own try/catch
Cleanup(c) ==
    IF c.err # "" THEN c
    ELSE [c EXCEPT !.instCalls = @ \o <<"close", "recycle", "delete">>]

\* lines 429-433
PostResult(c, j) ==
    IF c.err # "" THEN c
    ELSE [c EXCEPT !.msgs = Append(@, Msg(j, c.jobId, "result", "", "", c.out))]

\* line 436: (e && e.data && e.data.jobId) || undefined
CatchJobId(jid) == IF Truthy(jid) THEN jid ELSE "undefined"

\* a catch clause that swallows the exception and posts nothing
ErrorMessagesSwallowed(c, j) == <<>>

\* lines 434-441: the catch clause posts the error message
ErrorMessages(c, j) ==
    <<Msg(j, CatchJobId(c.jobId), "error", "", c.err, <<>>)>>

Catch(c, j) ==
    IF c.err = "" THEN c
    ELSE [c EXCEPT !.msgs = @ \o ErrorMessages(c, j)]

\* where the activation stands when the segment ends without an await
EndPc(c) == IF c.err # "" THEN "failed" ELSE "done"

\* ------------------------------------------------------------ EXR bridge
\* The engine's memory as the bridge reads it back (Module.HEAPU8).
HEAPU8(seed, a) == (a * 7 + 3 + 100 * seed) % 256

\* line 83 testing the pointer alone
EngineResultUsableAnySize(ptr, size) == ptr # 0

\* line 83: if (ptr && size > 0)
EngineResultUsable(ptr, size) == ptr # 0 /\ size > 0

\* lines 84-86: out = new Uint8Array(size); out.set(view of [ptr, ptr+size))
CopyOut(seed, ptr, size) == [i \in 1..size |-> HEAPU8(seed, ptr + i - 1)]

\* Module._free(p) of an allocation of this call
Free(st) == IF st = "live" THEN "freed"
            ELSE IF st = "freed" THEN "freed twice" ELSE st

\* lines 90-92: _free(pPixels); _free(pSize); if (ptr) _free(ptr)
FreeTemporaries(alloc, ptr) ==
    [pPixels |-> Free(alloc.pPixels), pSize |-> Free(alloc.pSize),
     ptr |-> IF ptr # 0 THEN Free(alloc.ptr) ELSE alloc.ptr]

\* lines 41-94, after the engine module is available: eng is what the engine
\* does on this call (a throwing call, or the pointer it returns and the
\* value the size cell then holds).
EncodeEXR(c, eng) ==
    IF c.err # "" THEN c
    ELSE LET c0 == [c EXCEPT !.engine = eng]
             c1 == [c0 EXCEPT !.alloc.pPixels = "live"]
             c2 == [c1 EXCEPT !.alloc.pSize = "live"]
             c3 == [c2 EXCEPT !.alloc.ptr = IF eng.ptr # 0 THEN "live" ELSE @]
             size == ReadSize(eng.cell)
             usable == EngineResultUsable(eng.ptr, size)
             c4 == [c3 EXCEPT !.out = IF usable
                                      THEN CopyOut(eng.seed, eng.ptr, size)
                                      ELSE <<>>,
                              !.alloc = FreeTemporaries(@, eng.ptr)]
         IN CASE eng.kind = "malloc1Throws" -> Throw(c0, "Module._malloc is not a function")
              [] eng.kind = "malloc2Throws" -> Throw(c1, "malloc aborted")
              [] eng.kind = "trap" -> Throw(c2, "engine aborted")
              [] eng.kind = "getValueThrows" -> Throw(c3, "getValue failed")
              [] OTHER -> IF usable THEN c4 ELSE Throw(c4, "EXR encode failed")

\* What the engine may do on one call.  A failed encode returns NULL and
\* leaves the size cell as malloc handed it out (any value); a successful
\* one stores the sink's size.
EngineOutcomes ==
    {[kind |-> k, ptr |-> 0, cell |-> 0, seed |-> 0] :
        k \in {"malloc1Throws", "malloc2Throws", "trap"}}
    \cup {[kind |-> "getValueThrows", ptr |-> p, cell |-> 0, seed |-> 0] : p \in 0..1}
    \cup {[kind |-> "returns", ptr |-> 0, cell |-> n, seed |-> 0] : n \in 0..MaxOutSize}
    \cup {[kind |-> "returns", ptr |-> p, cell |-> n, seed |-> s] :
            p \in 1..MaxPtr, n \in 0..MaxOutSize, s \in 0..1}

\* ---------------------------------------------------- decoder responses
Shape(kind, w, h, sw, sh, len) ==
    [kind |-> kind, width |-> w, height |-> h, sizesW |-> sw, sizesH |-> sh,
     len |-> len]
MetaObj(kind, w, h, sw, sh) ==
    [kind |-> kind, width |-> w, height |-> h, sizesW |-> sw, sizesH |-> sh]

\* the ways an object may carry its dimensions: as width/height, or under sizes
DimFields ==
    {<<w, h, 0, 0>> : w \in 0..MaxDim, h \in 0..MaxDim}
    \cup {<<0, 0, w, h>> : w \in 1..MaxDim, h \in 1..MaxDim}

\* buffer lengths: the 16-bit and the 8-bit length of every image size, one
\* more than each, and the empty buffer
Lens ==
    {0} \cup {k * w * h + d : k \in {3, 6}, w \in 1..MaxDim, h \in 1..MaxDim, d \in 0..1}

\* every shape of imageData() result the handler distinguishes
AllShapes ==
    {Shape("rejects", 0, 0, 0, 0, 0), Shape("null", 0, 0, 0, 0, 0)}
    \cup {Shape(k, 0, 0, 0, 0, n) : k \in {"U8", "U16", "AB"}, n \in Lens}
    \cup {Shape(k, d[1], d[2], d[3], d[4], n) :
            k \in {"ObjU8", "ObjU16", "ObjAB"}, d \in DimFields, n \in Lens}
    \cup {Shape("ObjNone", d[1], d[2], d[3], d[4], 0) : d \in DimFields}

AllMetas ==
    {MetaObj(k, 0, 0, 0, 0) : k \in {"absent", "throws", "asyncRejects"}}
    \cup {MetaObj(k, d[1], d[2], d[3], d[4]) : k \in {"sync", "async"}, d \in DimFields}

\* The inputs of a run: the values requests carry and the responses the
\* collaborators give.  A request's pipeline and format are fixed when the
\* message is sent; the model draws each where the handler first reads it.
AllInputs ==
    [jobIds |-> JobIdValues, shapes |-> AllShapes, metas |-> AllMetas,
     pipelines |-> PipelineValues, formats |-> FormatValues,
     engines |-> EngineOutcomes]

\* the inputs given to concurrent jobs: one of each outcome of a stage
FewInputs ==
    [jobIds |-> {"0", "7"},
     shapes |-> {Shape("rejects", 0, 0, 0, 0, 0), Shape("ObjU16", 1, 1, 0, 0, 3),
                 Shape("U16", 0, 0, 0, 0, 3)},
     metas |-> {MetaObj("async", 1, 1, 0, 0)},
     pipelines |-> {""},
     formats |-> {"", "exr"},
     engines |-> {e \in EngineOutcomes :
                    \/ e.kind = "trap"
                    \/ e.kind = "returns" /\ e.ptr = 1 /\ e.cell = 1 /\ e.seed = 0}]

\* ------------------------------------------------------------ scheduling
\* A continuation of an await on an already settled promise is a microtask:
\* it runs before the event loop delivers another message or settles another
\* collaborator call.
MicroPending ==
    \E j \in Jobs :
        \/ pc[j] = "awaitModule"
        \/ pc[j] = "awaitExr" /\ exrModulePromise \in {"resolved", "rejected"}

\* the segment ends: its messages are posted in order (c is the value the
\* segment computed, bound once by the action)
Finish(j, c) ==
    /\ job' = [job EXCEPT ![j] = [c EXCEPT !.msgs = <<>>]]
    /\ posted' = posted \o c.msgs

\* lines 315-325: new LibRawClass(), progress('opening'), instance.open(...)
StartOpen(c, j) ==
    LET c1 == [c EXCEPT !.instCreated = TRUE]
        c2 == Stage(Progress(c1, j, "opening"), "open")
    IN [c2 EXCEPT !.instCalls = Append(@, "open")]

\* lines 328-329 without the progress('decoding') of line 328
StartImageDataSilent(c, j) ==
    LET c1 == Stage(c, "imageData")
    IN [c1 EXCEPT !.instCalls = Append(@, "imageData")]

\* lines 328-329: progress('decoding'), instance.imageData()
StartImageData(c, j) ==
    LET c1 == Stage(Progress(c, j, "decoding"), "imageData")
    IN [c1 EXCEPT !.instCalls = Append(@, "imageData")]

\* lines 331-405 for a resolved imageData() result and metadata m
DecodeSegment(c, j, m, pipeline, format) ==
    LET Dimensions(x) == ResolveDimensions(Stage(x, "dimensions"), m)
        PostDimensions(x) == Progress(x, j, "dimensions")
        Normalise(x) == NormalizeView(Stage(x, "normalise"))
        Enforce(x) == EnforceU16(x)
        PostPrepared(x) == Progress(x, j, "pixels-prepared")
        RunTransform(x) == Transform(Stage(x, "transform"), pipeline)
        PostTransformed(x) == Progress(x, j, "transformed")
        Format(x) == SelectFormat(x, format)
    IN Then(Then(Then(Then(Then(Then(Then(Then(c,
         Dimensions), PostDimensions), Normalise), Enforce), PostPrepared),
         RunTransform), PostTransformed), Format)

\* lines 413-433: the TIFF branch to the end of the handler
TiffSegment(c, j) ==
    LET Encode(x) == CallEncoder(Stage(x, "encode"), "tiff")
        PostEncoded(x) == Progress(x, j, "encoded")
        Result(x) == PostResult(x, j)
    IN Then(Then(Then(Then(c, Encode), PostEncoded), Cleanup), Result)

\* lines 409-433: the EXR branch once the engine module is there
ExrSegment(c, j, eng) ==
    LET Encode(x) == EncodeEXR(x, eng)
        PostEncoded(x) == Progress(x, j, "encoded")
        Result(x) == PostResult(x, j)
    IN Then(Then(Then(Then(c, Encode), PostEncoded), Cleanup), Result)

\* --------------------------------------------------------------- actions
\* lines 300-314: a message arrives; ensureModule() is called
Deliver(j, in) ==
    /\ pc[j] = "idle"
    /\ \A i \in Jobs : i < j => pc[i] # "idle"
    /\ ~MicroPending
    /\ \E cmd \in Cmds, jid \in in.jobIds :
         IF cmd # "process"
         THEN /\ pc' = [pc EXCEPT ![j] = "ignored"]
              /\ job' = [job EXCEPT ![j].cmd = cmd]
              /\ UNCHANGED libRawLoads
         ELSE /\ job' = [job EXCEPT ![j].cmd = cmd, ![j].jobId = jid]
              /\ IF moduleRef = 0
                 THEN /\ pc' = [pc EXCEPT ![j] = "awaitLibRaw"]
                      /\ libRawLoads' = libRawLoads + 1
                 ELSE /\ pc' = [pc EXCEPT ![j] = "awaitModule"]
                      /\ UNCHANGED libRawLoads
    /\ UNCHANGED <<posted, moduleRef, exrModulePromise, exrLoads, exrLoadResp>>
    /\ UNCHANGED unitVars

\* lines 293-297, 314: LibRawModule(...) settles
LibRawSettle(j) ==
    /\ pc[j] = "awaitLibRaw"
    /\ ~MicroPending
    /\ \E resp \in {"ok", "fail"} :
         \E c1 \in {IF resp = "ok"
                     THEN StartOpen([job[j] EXCEPT !.env.libraw = resp], j)
                     ELSE Catch(Throw([job[j] EXCEPT !.env.libraw = resp],
                                      "LibRaw module failed to load"), j)} :
            /\ Finish(j, c1)
            /\ pc' = [pc EXCEPT ![j] = IF resp = "ok" THEN "awaitOpen" ELSE "failed"]
            /\ moduleRef' = IF resp = "ok" THEN j ELSE moduleRef
    /\ UNCHANGED <<libRawLoads, exrModulePromise, exrLoads, exrLoadResp>>
    /\ UNCHANGED unitVars

\* line 314 when moduleRef is already set
ModuleTick(j) ==
    /\ pc[j] = "awaitModule"
    /\ \E c1 \in {StartOpen(job[j], j)} : Finish(j, c1)
    /\ pc' = [pc EXCEPT ![j] = "awaitOpen"]
    /\ UNCHANGED <<moduleRef, libRawLoads, exrModulePromise, exrLoads, exrLoadResp>>
    /\ UNCHANGED unitVars

\* line 325: instance.open(...) settles
OpenSettle(j) ==
    /\ pc[j] = "awaitOpen"
    /\ ~MicroPending
    /\ \E resp \in {"ok", "fail"} :
         \E c1 \in {IF resp = "ok"
                     THEN StartImageData([job[j] EXCEPT !.env.open = resp], j)
                     ELSE Catch(Throw([job[j] EXCEPT !.env.open = resp],
                                      "open failed"), j)} :
            /\ Finish(j, c1)
            /\ pc' = [pc EXCEPT ![j] = IF resp = "ok" THEN "awaitImageData" ELSE "failed"]
    /\ UNCHANGED <<moduleRef, libRawLoads, exrModulePromise, exrLoads, exrLoadResp>>
    /\ UNCHANGED unitVars

\* lines 331-433 from the point where the metadata (if consulted) is known:
\* runs to the end of the handler, or to the await of the engine module
\* (lines 40, 8-20).  would is the response of the engine module's loader to
\* this job: of the load it starts, of the load in flight that it joins, or
\* of the load it would start had no earlier one been cached.
Continue(j, c, m, in) ==
    \E pipeline \in in.pipelines, format \in in.formats, would \in {"ok", "fail"} :
        \E d \in {DecodeSegment(c, j, m, pipeline, format)} :
           IF d.err = "" /\ d.format = "exr"
           THEN /\ exrModulePromise = "pending" => would = exrLoadResp
                /\ Finish(j, [CallEncoder(Stage(d, "encode"), "exr")
                                EXCEPT !.env.exrWould = would])
                /\ pc' = [pc EXCEPT ![j] = "awaitExr"]
                /\ IF exrModulePromise = "null"
                   THEN /\ exrModulePromise' = "pending"
                        /\ exrLoads' = exrLoads + 1
                        /\ exrLoadResp' = would
                   ELSE UNCHANGED <<exrModulePromise, exrLoads, exrLoadResp>>
           ELSE \E t \in {Catch(TiffSegment(d, j), j)} :
                   /\ Finish(j, t)
                   /\ pc' = [pc EXCEPT ![j] = EndPc(t)]
                   /\ UNCHANGED <<exrModulePromise, exrLoads, exrLoadResp>>

\* line 329: instance.imageData() settles
ImageDataSettle(j, in) ==
    /\ pc[j] = "awaitImageData"
    /\ ~MicroPending
    /\ \E s \in in.shapes :
         IF s.kind = "rejects"
         THEN /\ \E c1 \in {Catch(Throw([job[j] EXCEPT !.img = s],
                                          "imageData failed"), j)} : Finish(j, c1)
              /\ pc' = [pc EXCEPT ![j] = "failed"]
              /\ UNCHANGED <<exrModulePromise, exrLoads, exrLoadResp>>
         ELSE IF NeedsMeta(s)
              THEN \E m \in in.metas :
                     IF MetaIsThenable(m)
                     THEN /\ Finish(j, [job[j] EXCEPT !.img = s, !.meta = m])
                          /\ pc' = [pc EXCEPT ![j] = "awaitMeta"]
                          /\ UNCHANGED <<exrModulePromise, exrLoads, exrLoadResp>>
                     ELSE Continue(j, [job[j] EXCEPT !.img = s], m, in)
              ELSE Continue(j, [job[j] EXCEPT !.img = s], NoMeta, in)
    /\ UNCHANGED <<moduleRef, libRawLoads>>
    /\ UNCHANGED unitVars

\* line 338: the thenable returned by metadata(true) settles
MetaSettle(j, in) ==
    /\ pc[j] = "awaitMeta"
    /\ ~MicroPending
    /\ Continue(j, job[j], job[j].meta, in)
    /\ UNCHANGED <<moduleRef, libRawLoads>>
    /\ UNCHANGED unitVars

\* lines 10-18: the import of the engine module settles
ExrLoadSettle ==
    /\ exrModulePromise = "pending"
    /\ ~MicroPending
    /\ exrModulePromise' = IF exrLoadResp = "ok" THEN "resolved" ELSE "rejected"
    /\ UNCHANGED <<pc, job, posted, moduleRef, libRawLoads, exrLoads, exrLoadResp>>
    /\ UNCHANGED unitVars

\* line 40 resumes: the rest of encodeEXRFromRGB16 and of the handler
ExrResume(j, in) ==
    /\ pc[j] = "awaitExr"
    /\ exrModulePromise \in {"resolved", "rejected"}
    /\ \E eng \in in.engines :
         \E c2 \in {Catch(IF exrModulePromise = "rejected"
                           THEN Throw(job[j], "EXR module failed to load")
                           ELSE ExrSegment(job[j], j, eng), j)} :
            /\ Finish(j, c2)
            /\ pc' = [pc EXCEPT ![j] = EndPc(c2)]
    /\ UNCHANGED <<moduleRef, libRawLoads, exrModulePromise, exrLoads, exrLoadResp>>
    /\ UNCHANGED unitVars

\* ---------------------------------------------------------- specifications
WorkerInit ==
    /\ pc = [j \in Jobs |-> "idle"]
    /\ job = [j \in Jobs |-> NewJob]
    /\ posted = <<>>
    /\ moduleRef = 0
    /\ libRawLoads = 0
    /\ exrModulePromise = "null"
    /\ exrLoads = 0
    /\ exrLoadResp = "n/a"

\* no call of the separately exercised functions is under way
NoCall == [phase |-> "n/a"]

UnitsIdle ==
    /\ tiff = NoCall
    /\ sink = NoCall
    /\ exr = NoCall
    /\ caches = NoCall

Init == WorkerInit /\ UnitsIdle

JobStep(j) ==
    \/ LibRawSettle(j)
    \/ ModuleTick(j)
    \/ OpenSettle(j)
    \/ ImageDataSettle(j, FewInputs)
    \/ MetaSettle(j, FewInputs)
    \/ ExrResume(j, FewInputs)

Next ==
    \/ \E j \in Jobs : Deliver(j, FewInputs)
    \/ \E j \in Jobs : JobStep(j)
    \/ ExrLoadSettle

\* the worker with concurrent jobs
Spec == Init /\ [][Next]_vars

\* every awaited collaborator call settles and every continuation runs
FairSpec == Spec /\ WF_vars(ExrLoadSettle) /\ \A j \in Jobs : WF_vars(JobStep(j))

\* one job, given every shape of decoder result
DecodeNext ==
    \/ Deliver(1, AllInputs)
    \/ LibRawSettle(1)
    \/ OpenSettle(1)
    \/ ImageDataSettle(1, AllInputs)
    \/ MetaSettle(1, AllInputs)
    \/ ExrLoadSettle
    \/ ExrResume(1, AllInputs)

DecodeSpec == Init /\ [][DecodeNext]_vars

\* ------------------------------------------------------- reading the log
Terminal(m) == m.type \in {"result", "error"}
Started(j) == job[j].cmd = "process"
MsgsOf(j) == SelectSeq(posted, LAMBDA m : m.job = j)
TerminalsOf(j) == SelectSeq(posted, LAMBDA m : m.job = j /\ Terminal(m))
HasResult(j) == \E k \in 1..Len(posted) : posted[k].job = j /\ posted[k].type = "result"
HasError(j) == \E k \in 1..Len(posted) : posted[k].job = j /\ posted[k].type = "error"
ProgressOf(j) == SelectSeq(posted, LAMBDA m : m.job = j /\ m.type = "progress")
StagesOf(j) == [k \in 1..Len(ProgressOf(j)) |-> ProgressOf(j)[k].stage]
IsPrefix(s, t) == Len(s) <= Len(t) /\ SubSeq(t, 1, Len(s)) = s
Ended(j) == pc[j] \in {"done", "failed"}

\* ------------------------------------------------------------------- C1
\* C1 (safety part): a job never has two terminal messages, and its terminal
\* message is the last message it posts.
C1_AtMostOneTerminalLast ==
    \A j \in Jobs :
        /\ Len(TerminalsOf(j)) <= 1
        /\ \A k \in 1..Len(MsgsOf(j)) : Terminal(MsgsOf(j)[k]) => k = Len(MsgsOf(j))

\* C1: when every awaited call settles, every 'process' message gets exactly
\* one terminal message (result or error, never both, never neither) and no
\* progress message follows it.
C1_ExactlyOneTerminal ==
    /\ []C1_AtMostOneTerminalLast
    /\ <>[](\A j \in Jobs : Started(j) => Len(TerminalsOf(j)) = 1)

\* two jobs have ended, one with a result and one with an error, each after
\* progress messages
C1_Witness ==
    \E a, b \in Jobs :
        /\ HasResult(a) /\ Len(MsgsOf(a)) > 1
        /\ HasError(b) /\ Len(MsgsOf(b)) > 1

\* ------------------------------------------------------------------- C2
\* C2: jobs of one worker never interleave: no message of a later job is
\* posted before the terminal message of every job started before it.
C2_NoInterleaving ==
    \A k \in 1..Len(posted) : \A a \in Jobs :
        (a < posted[k].job /\ Started(a))
            => \E i \in 1..(k - 1) : posted[i].job = a /\ Terminal(posted[i])

\* ------------------------------------------------------------------- C3
StageOrder ==
    <<"opening", "decoding", "dimensions", "pixels-prepared", "transformed", "encoded">>
ClaimedStages ==
    <<"opening", "decoding", "pixels-prepared", "transformed", "encoded">>

\* C3: the stages a job has posted are an initial segment of the handler's
\* stage order, and a job with a result has posted opening, decoding,
\* pixels-prepared, transformed, encoded, each once and in this order.
C3_StagesInOrder ==
    \A j \in Jobs :
        /\ IsPrefix(StagesOf(j), StageOrder)
        /\ HasResult(j) =>
             SelectSeq(StagesOf(j), LAMBDA st : \E i \in 1..Len(ClaimedStages) :
                                                  ClaimedStages[i] = st) = ClaimedStages

\* a job with a result, and a job that failed after two or more stages
C3_Witness ==
    \E a, b \in Jobs :
        /\ HasResult(a)
        /\ HasError(b) /\ Len(StagesOf(b)) >= 2

\* ------------------------------------------------------------------- C4
\* C4: a job that created a decoder instance has called close, recycle and
\* delete on it by the time its terminal message is posted, result or error.
C4_CleanupBeforeTerminal ==
    \A j \in Jobs :
        (job[j].instCreated /\ Len(TerminalsOf(j)) >= 1)
            => \A call \in {"close", "recycle", "delete"} :
                 \E k \in 1..Len(job[j].instCalls) : job[j].instCalls[k] = call

\* ------------------------------------------------------------------- C5
\* C5: on every exit path of encodeEXRFromRGB16, every engine-side allocation
\* of the call has been freed exactly once.
C5_TemporariesFreed ==
    \A j \in Jobs :
        Ended(j) => /\ job[j].alloc.pPixels \in {"none", "freed"}
                    /\ job[j].alloc.pSize \in {"none", "freed"}
                    /\ job[j].alloc.ptr \in {"none", "freed"}

\* ------------------------------------------------------------------- C6
\* C6: when the engine returns a null pointer or the size cell reads 0, the
\* bridge throws 'EXR encode failed' and the job posts an error, no 'encoded'
\* progress and no result; otherwise the bridge returns exactly the size
\* bytes of engine memory at [ptr, ptr+size), which the result carries.
C6_NullOrEmptyIsFailure ==
    \A j \in Jobs :
        (Ended(j) /\ job[j].engine.kind = "returns") =>
            LET e == job[j].engine
                size == ReadSize(e.cell)
            IN IF e.ptr = 0 \/ size = 0
               THEN /\ HasError(j) /\ ~HasResult(j)
                    /\ TerminalsOf(j)[1].error = "EXR encode failed"
                    /\ \A k \in 1..Len(StagesOf(j)) : StagesOf(j)[k] # "encoded"
               ELSE /\ HasResult(j) /\ ~HasError(j)
                    /\ Len(TerminalsOf(j)[1].out) = size
                    /\ \A i \in 1..size :
                         TerminalsOf(j)[1].out[i] = HEAPU8(e.seed, e.ptr + i - 1)

\* the engine returned two or more bytes away from address 0 and the job has
\* its result; another call of the model's runs returned a pointer and size 0
C6_Witness ==
    \E j \in Jobs :
        /\ Ended(j) /\ job[j].engine.kind = "returns"
        /\ job[j].engine.ptr > 1 /\ job[j].engine.cell >= 2
        /\ HasResult(j)

\* ------------------------------------------------------------------- C7
\* C7: every message a job posts carries the jobId of its request.
C7_JobIdEchoed ==
    \A k \in 1..Len(posted) : posted[k].jobId = job[posted[k].job].jobId

\* ------------------------------------------------------------------- C8
\* the normalised buffer holds exactly width*height*3 16-bit samples
Exact16(c) ==
    \/ c.view.kind = "U16" /\ c.view.len = c.width * c.height * 3
    \/ c.view.kind = "U8" /\ c.view.len = c.width * c.height * 6

\* C8: a job whose decoded buffer is not exactly width*height*3 16-bit
\* samples ends in Failed with neither the transform nor an encoder run; a
\* byte buffer of width*height*3 bytes is reported as 8-bit data.
C8_BadBufferRejected ==
    \A j \in Jobs :
        LET c == job[j]
        IN (c.view.kind # "null" /\ ~Exact16(c)) =>
             /\ pc[j] = "failed" /\ HasError(j) /\ ~HasResult(j)
             /\ \A k \in 1..Len(c.trace) : c.trace[k] \notin {"transform", "encode"}
             /\ c.pixels = NoPixels /\ c.enc = NoEnc
             /\ (c.view.kind = "U8" /\ c.view.len = c.width * c.height * 3)
                  => TerminalsOf(j)[1].error = "Decoder returned 8-bit data; 16-bit required"

\* an 8-bit buffer was rejected
C8_Witness ==
    \E j \in Jobs :
        /\ job[j].view.kind = "U8"
        /\ job[j].width * job[j].height > 1
        /\ job[j].view.len = job[j].width * job[j].height * 3
        /\ pc[j] = "failed"

\* ------------------------------------------------------------------- C9
AllStages == <<"open", "imageData", "dimensions", "normalise", "transform", "encode">>

\* C9: the stages of a job run in order, each at most once; no stage runs
\* after the one that threw; and an encoder is only called with a buffer of
\* exactly width*height*3 samples, width and height nonzero, that the
\* transform has been applied to.
C9_StagesRunInOrder ==
    \A j \in Jobs :
        LET c == job[j]
        IN /\ IsPrefix(c.trace, AllStages)
           /\ c.err # "" => Len(c.trace) = c.errAt
           /\ c.enc.fmt # "none" =>
                /\ c.enc.width > 0 /\ c.enc.height > 0
                /\ c.enc.len = c.enc.width * c.enc.height * 3
                /\ c.enc.transformed # "none"
                /\ c.trace = AllStages

\* an encoder was called on a 2x2 or larger buffer
C9_Witness ==
    \E j \in Jobs :
        /\ job[j].enc.fmt # "none" /\ job[j].enc.len >= 12
        /\ pc[j] = "done"

\* ------------------------------------------------------------------ C10
\* a response of the job's own collaborators, or its own data, is at fault
OwnFault(j) ==
    LET c == job[j]
    IN \/ c.env.libraw = "fail"
       \/ c.env.open = "fail"
       \/ c.img.kind = "rejects"
       \/ c.env.exrWould = "fail"
       \/ c.engine.kind \notin {"none", "returns"}
       \/ c.engine.kind = "returns" /\ (c.engine.ptr = 0 \/ c.engine.cell = 0)
       \/ c.err \in {"Missing dimensions", "Unexpected imageData type",
                     "Unexpected data length for 16-bit image",
                     "Decoder returned 8-bit data; 16-bit required",
                     "Unexpected imageData byte length"}

\* C10: a job fails only through its own request and the responses of its
\* own collaborator calls, never because an earlier job failed.
C10_FailsOnlyByOwnFault ==
    \A j \in Jobs : pc[j] = "failed" => OwnFault(j)

\* ============================================================ TIFF encoder
\* encodeTiff16leWithColorimetry (lines 447-573) and getColorimetryForPipeline
\* (lines 575-598).  A string is the sequence of its UTF-16 code units, and a
\* missing argument (undefined or null) is the empty sequence.  A
\* chromaticity coordinate is a whole number of 1e-7 units (0.32168 is
\* 3216800), so that the rounding to millionths is a computation.

CoordDenominator == 10000000

\* lines 460-463
TYPE_ASCII == 2
TYPE_SHORT == 3
TYPE_LONG == 4
TYPE_RATIONAL == 5

\* line 452, line 468
headerBytes == 8
rationalBytes == 8

\* 'ACEScct (AP1)'
DescACEScct == <<65, 67, 69, 83, 99, 99, 116, 32, 40, 65, 80, 49, 41>>
\* 'ARRI LogC4 (AWG4)'
DescLogC4 == <<65, 82, 82, 73, 32, 76, 111, 103, 67, 52, 32, 40, 65, 87, 71, 52, 41>>
\* 'ACES2065-1 (AP0 Linear)'
DescAP0 == <<65, 67, 69, 83, 50, 48, 54, 53, 45, 49, 32, 40, 65, 80, 48, 32,
             76, 105, 110, 101, 97, 114, 41>>

\* lines 575-598
getColorimetryForPipeline(pipeline) ==
    LET p == IF Truthy(pipeline) THEN pipeline ELSE "ap0-linear"
    IN IF p = "acescct"
       THEN [whitePoint |-> <<3216800, 3376700>>,
             primaries |-> [r |-> <<7130000, 2930000>>, g |-> <<1650000, 8300000>>,
                            b |-> <<1280000, 440000>>],
             description |-> DescACEScct]
       ELSE IF p = "arri-logc4"
            THEN [whitePoint |-> <<3127000, 3290000>>,
                  primaries |-> [r |-> <<7347000, 2653000>>, g |-> <<1424000, 8576000>>,
                                 b |-> <<991000, -308000>>],
                  description |-> DescLogC4]
            ELSE [whitePoint |-> <<3216800, 3376700>>,
                  primaries |-> [r |-> <<7347000, 2653000>>, g |-> <<0, 10000000>>,
                                 b |-> <<1000, -770000>>],
                  description |-> DescAP0]

\* Math.round(n / d): the nearest whole number, a half rounded up
MathRound(n, d) == (2 * n + d) \div (2 * d)

\* lines 511-515: toRational(x) for the coordinate x; x * den is x counted in
\* units of 1/den, a fraction with the denominator CoordDenominator / den
toRational(x) ==
    LET den == 1000000
        num == MathRound(x, CoordDenominator \div den)
    IN <<num, den>>

\* byte k (0 the lowest) of the 32-bit word that v >>> 0 is: of v modulo 2^32
ByteOf(v, k) ==
    CASE k = 0 -> v % 256
      [] k = 1 -> (v \div 256) % 256
      [] k = 2 -> (v \div 65536) % 256
      [] OTHER -> (v \div 16777216) % 256

\* DataView stores, little-endian (the `true` argument): n bytes of v at o
SetUint8(o, v) == <<[o |-> o, n |-> 1, v |-> v]>>
\* setUint16 without the little-endian argument: the high byte first
SetUint16BigEndian(o, v) ==
    <<[o |-> o, n |-> 1, v |-> (v \div 256) % 256], [o |-> o + 1, n |-> 1, v |-> v % 256]>>
SetUint16(o, v) == <<[o |-> o, n |-> 2, v |-> v]>>
SetUint32(o, v) == <<[o |-> o, n |-> 4, v |-> v]>>

\* the concatenation of the stores F(1), ..., F(n)
RECURSIVE Stores(_, _)
Stores(F(_), n) == IF n = 0 THEN <<>> ELSE Stores(F, n - 1) \o F(n)

\* lines 448-483: where the encoder places each part
TiffLayout(a) ==
    LET numPixels == a.width * a.height
        bytesPerSample == 2
        imageBytes == numPixels * a.samplesPerPixel * bytesPerSample
        pixelDataOffset == headerBytes
        bpsOffset == pixelDataOffset + imageBytes
        sfOffset == bpsOffset + Len(a.bitsPerSampleArr) * 2
        whitePointCount == 2
        primariesCount == 6
        wpOffset == sfOffset + Len(a.sampleFormatArr) * 2
        pcOffset == wpOffset + whitePointCount * rationalBytes
        descByteLen == Len(a.imageDescription) + 1
        descOffset == pcOffset + primariesCount * rationalBytes
        extraEntries == 3
        ifdEntryCount == 12 + extraEntries
        ifdBytes == 2 + ifdEntryCount * 12 + 4
        ifdOffset == descOffset + descByteLen
    IN [imageBytes |-> imageBytes, pixelDataOffset |-> pixelDataOffset,
        bpsOffset |-> bpsOffset, sfOffset |-> sfOffset, wpOffset |-> wpOffset,
        pcOffset |-> pcOffset, descByteLen |-> descByteLen,
        descOffset |-> descOffset, ifdEntryCount |-> ifdEntryCount,
        ifdBytes |-> ifdBytes, ifdOffset |-> ifdOffset,
        totalBytes |-> ifdOffset + ifdBytes]

\* lines 506-510
writeRationalPair(baseOffset, index, num, den) ==
    LET o == baseOffset + index * rationalBytes
    IN SetUint32(o, num) \o SetUint32(o + 4, den)

\* lines 516-525: a white point of two coordinates, else D65
WhitePointStores(a, L) ==
    IF Len(a.whitePoint) = 2
    THEN writeRationalPair(L.wpOffset, 0, toRational(a.whitePoint[1])[1],
                                          toRational(a.whitePoint[1])[2])
         \o writeRationalPair(L.wpOffset, 1, toRational(a.whitePoint[2])[1],
                                             toRational(a.whitePoint[2])[2])
    ELSE writeRationalPair(L.wpOffset, 0, 312700, 1000000)
         \o writeRationalPair(L.wpOffset, 1, 329000, 1000000)

\* lines 527-530: the six primaries coordinates, with the Rec.709 defaults
PrimariesVals(a) ==
    LET pr == IF a.primaries.r # <<>> THEN a.primaries.r ELSE <<6400000, 3300000>>
        pg == IF a.primaries.g # <<>> THEN a.primaries.g ELSE <<3000000, 6000000>>
        pb == IF a.primaries.b # <<>> THEN a.primaries.b ELSE <<1500000, 600000>>
    IN <<pr[1], pr[2], pg[1], pg[2], pb[1], pb[2]>>

\* lines 553-567: the entries in the order the encoder writes them
IfdEntries(a, L) ==
    << <<256, TYPE_LONG, 1, a.width>>,
       <<257, TYPE_LONG, 1, a.height>>,
       <<258, TYPE_SHORT, Len(a.bitsPerSampleArr), L.bpsOffset>>,
       <<259, TYPE_SHORT, 1, 1>>,
       <<262, TYPE_SHORT, 1, 2>>,
       <<273, TYPE_LONG, 1, L.pixelDataOffset>>,
       <<277, TYPE_SHORT, 1, a.samplesPerPixel>>,
       <<278, TYPE_LONG, 1, a.height>>,
       <<279, TYPE_LONG, 1, L.imageBytes>>,
       <<284, TYPE_SHORT, 1, 1>>,
       <<339, TYPE_SHORT, Len(a.sampleFormatArr), L.sfOffset>>,
       <<274, TYPE_SHORT, 1, 1>>,
       <<318, TYPE_RATIONAL, 2, L.wpOffset>>,
       <<319, TYPE_RATIONAL, 6, L.pcOffset>>,
       <<270, TYPE_ASCII, L.descByteLen, L.descOffset>> >>

\* lines 543-548: entry(tag, type, count, valueOrOffset) written at io
entry(io, e) ==
    SetUint16(io, e[1]) \o SetUint16(io + 2, e[2])
    \o SetUint32(io + 4, e[3]) \o SetUint32(io + 8, e[4])

\* lines 487-570: every store of the encoder, in the order it is made
TiffStores(a) ==
    LET L == TiffLayout(a)
        Pixel(i) == SetUint16(L.pixelDataOffset + (i - 1) * 2, a.pixelsU16[i])
        Bps(i) == SetUint16(L.bpsOffset + (i - 1) * 2, a.bitsPerSampleArr[i])
        Sf(i) == SetUint16(L.sfOffset + (i - 1) * 2, a.sampleFormatArr[i])
        Prim(i) == writeRationalPair(L.pcOffset, i - 1,
                                     toRational(PrimariesVals(a)[i])[1],
                                     toRational(PrimariesVals(a)[i])[2])
        Desc(i) == SetUint8(L.descOffset + (i - 1), a.imageDescription[i] % 256)
        Ent(i) == entry(L.ifdOffset + 2 + (i - 1) * 12, IfdEntries(a, L)[i])
    IN SetUint8(0, 73) \o SetUint8(1, 73) \o SetUint16(2, 42)
       \o SetUint32(4, L.ifdOffset)
       \o Stores(Pixel, Len(a.pixelsU16))
       \o Stores(Bps, Len(a.bitsPerSampleArr))
       \o Stores(Sf, Len(a.sampleFormatArr))
       \o WhitePointStores(a, L)
       \o Stores(Prim, 6)
       \o Stores(Desc, Len(a.imageDescription))
       \o SetUint8(L.descOffset + Len(a.imageDescription), 0)
       \o SetUint16(L.ifdOffset, L.ifdEntryCount)
       \o Stores(Ent, Len(IfdEntries(a, L)))
       \o SetUint32(L.ifdOffset + 2 + L.ifdEntryCount * 12, 0)

\* lines 484-572: the zero-filled buffer of totalBytes bytes after the stores;
\* byte 0 of the file is element 1 of the sequence
encodeTiff16leWithColorimetry(a) ==
    LET L == TiffLayout(a)
        w == TiffStores(a)
        At(adr) ==
            LET hits == {k \in 1..Len(w) : w[k].o <= adr /\ adr < w[k].o + w[k].n}
                last == CHOOSE k \in hits : \A m \in hits : m <= k
            IN IF hits = {} THEN 0 ELSE ByteOf(w[last].v, adr - w[last].o)
    IN [i \in 1..L.totalBytes |-> At(i - 1)]

\* ------------------------------------------------- the encoder's callers
MaxPattern == 3

\* sample i of the pixel buffer with pattern p: 0, 21845, 43690 or 65535 first
Sample(p, i) == (p * 21845 + (i - 1) * 4369) % 65536
PixelsU16(p, n) == [i \in 1..n |-> Sample(p, i)]

NoPrimaries == [r |-> <<>>, g |-> <<>>, b |-> <<>>]

\* description strings given by other callers: none, 'A', 'A\0BC', and one
\* that starts with a character outside Latin-1 (U+0141), followed by 'BCD'
OtherDescriptions == {<<>>, <<65>>, <<65, 0, 66, 67>>, <<321, 66, 67, 68>>}

\* lines 413-419: the call the handler makes for a job's pipeline
HandlerTiffArgs(width, height, pixelsU16, pipeline) ==
    LET colorInfo == getColorimetryForPipeline(pipeline)
    IN [width |-> width, height |-> height, samplesPerPixel |-> 3,
        bitsPerSampleArr |-> <<16, 16, 16>>, sampleFormatArr |-> <<1, 1, 1>>,
        pixelsU16 |-> pixelsU16, whitePoint |-> colorInfo.whitePoint,
        primaries |-> colorInfo.primaries,
        imageDescription |-> colorInfo.description]

\* the requests of the encoder runs: the handler's, for every pipeline value,
\* and calls with other colorimetry arguments
TiffRequests ==
    {[caller |-> "handler", width |-> w, height |-> h, pattern |-> p,
      pipeline |-> pl, whitePoint |-> <<>>, primaries |-> NoPrimaries,
      imageDescription |-> <<>>] :
        w \in 1..MaxDim, h \in 1..MaxDim, p \in 0..MaxPattern, pl \in PipelineValues}
    \cup
    {[caller |-> "other", width |-> w, height |-> h, pattern |-> MaxPattern,
      pipeline |-> "", whitePoint |-> wp, primaries |-> pr,
      imageDescription |-> d] :
        w \in 1..MaxDim, h \in 1..MaxDim,
        wp \in {<<>>, <<3127000, 3290000>>},
        pr \in {NoPrimaries, getColorimetryForPipeline("arri-logc4").primaries},
        d \in OtherDescriptions}

TiffReturn(a) ==
    /\ tiff' = [tiff EXCEPT !.phase = "returned", !.a = a,
                            !.out = encodeTiff16leWithColorimetry(a)]
    /\ UNCHANGED <<workerVars, sink, exr, caches>>

\* lines 413-420 of the handler
TiffFromHandler ==
    /\ tiff.phase = "requested" /\ tiff.caller = "handler"
    /\ TiffReturn(HandlerTiffArgs(tiff.width, tiff.height,
                                  PixelsU16(tiff.pattern, tiff.width * tiff.height * 3),
                                  tiff.pipeline))

\* a call of the encoder with the caller's own colorimetry arguments
TiffFromOther ==
    /\ tiff.phase = "requested" /\ tiff.caller = "other"
    /\ TiffReturn([width |-> tiff.width, height |-> tiff.height, samplesPerPixel |-> 3,
                   bitsPerSampleArr |-> <<16, 16, 16>>, sampleFormatArr |-> <<1, 1, 1>>,
                   pixelsU16 |-> PixelsU16(tiff.pattern, tiff.width * tiff.height * 3),
                   whitePoint |-> tiff.whitePoint, primaries |-> tiff.primaries,
                   imageDescription |-> tiff.imageDescription])

TiffInit ==
    /\ WorkerInit
    /\ sink = NoCall /\ exr = NoCall /\ caches = NoCall
    /\ \E r \in TiffRequests :
         tiff = [phase |-> "requested", caller |-> r.caller, width |-> r.width,
                 height |-> r.height, pattern |-> r.pattern, pipeline |-> r.pipeline,
                 whitePoint |-> r.whitePoint, primaries |-> r.primaries,
                 imageDescription |-> r.imageDescription, a |-> <<>>, out |-> <<>>]

TiffNext == TiffFromHandler \/ TiffFromOther

\* the TIFF encoder on its own
TiffSpec == TiffInit /\ [][TiffNext]_vars

\* ------------------------------------------- reading a TIFF (TIFF 6.0)
TiffDone == tiff.phase = "returned"
\* byte at file offset o
FileByte(o) == tiff.out[o + 1]
InFile(o, n) == 0 <= o /\ o + n <= Len(tiff.out)
ReadU16(o) == FileByte(o) + 256 * FileByte(o + 1)
\* an unsigned 32-bit value as its two 16-bit halves
ReadU32(o) == [lo |-> ReadU16(o), hi |-> ReadU16(o + 2)]
\* the unsigned 32-bit value u is the number k
IsNumber(u, k) == k >= 0 /\ u.hi = k \div 65536 /\ u.lo = k % 65536
\* a 32-bit value below 2^31 as a number
AsNumber(u) == u.hi * 65536 + u.lo
Small(u) == u.hi < 32768

FirstIfd == ReadU32(4)
IfdAt == AsNumber(FirstIfd)
IfdCount == ReadU16(IfdAt)
\* entry k (from 1) of the IFD
EntryOffset(k) == IfdAt + 2 + (k - 1) * 12
EntryTag(k) == ReadU16(EntryOffset(k))
EntryType(k) == ReadU16(EntryOffset(k) + 2)
EntryCount(k) == ReadU32(EntryOffset(k) + 4)
EntryLong(k) == ReadU32(EntryOffset(k) + 8)
EntryShort(k) == ReadU16(EntryOffset(k) + 8)
\* the entries with a tag
EntriesOf(tag) == {k \in 1..IfdCount : InFile(EntryOffset(k), 12) /\ EntryTag(k) = tag}
HasOne(tag) == Cardinality(EntriesOf(tag)) = 1
The(tag) == CHOOSE k \in EntriesOf(tag) : TRUE

\* ------------------------------------------------------------------ C11
\* C11: the IFD declares 15 entries and holds exactly 15 twelve-byte entries
\* with strictly ascending tags, Compression = 1, PhotometricInterpretation
\* = 2, PlanarConfiguration = 1, followed by a next-IFD offset of 0 that ends
\* the file.
C11_IfdWellFormed ==
    TiffDone =>
        /\ Small(FirstIfd) /\ InFile(IfdAt, 2)
        /\ IfdCount = 15
        /\ InFile(IfdAt + 2, 15 * 12 + 4)
        /\ \A k \in 1..14 : EntryTag(k) < EntryTag(k + 1)
        /\ HasOne(259) /\ EntryShort(The(259)) = 1
        /\ HasOne(262) /\ EntryShort(The(262)) = 2
        /\ HasOne(284) /\ EntryShort(The(284)) = 1
        /\ IsNumber(ReadU32(IfdAt + 2 + 15 * 12), 0)

\* ------------------------------------------------------------------ C12
\* C12: the output starts with 49 49 2A 00, bytes 4..7 are the offset of the
\* IFD, bytes 8+2i and 9+2i are the low and the high byte of sample i,
\* StripOffsets is 8, RowsPerStrip is height and StripByteCounts is
\* width*height*6.
C12_HeaderAndPixels ==
    TiffDone =>
        LET a == tiff.a
        IN /\ Len(a.pixelsU16) = a.width * a.height * 3
           /\ <<FileByte(0), FileByte(1), FileByte(2), FileByte(3)>> = <<73, 73, 42, 0>>
           /\ Small(FirstIfd) /\ InFile(IfdAt, 2 + 15 * 12 + 4)
           /\ IfdCount = 15
           /\ {EntryTag(k) : k \in 1..15} =
                {256, 257, 258, 259, 262, 270, 273, 274, 277, 278, 279, 284, 318, 319, 339}
           /\ \A i \in 0..(Len(a.pixelsU16) - 1) :
                /\ FileByte(8 + 2 * i) = a.pixelsU16[i + 1] % 256
                /\ FileByte(9 + 2 * i) = a.pixelsU16[i + 1] \div 256
           /\ HasOne(273) /\ IsNumber(EntryLong(The(273)), 8)
           /\ HasOne(278) /\ IsNumber(EntryLong(The(278)), a.height)
           /\ HasOne(279) /\ IsNumber(EntryLong(The(279)), a.width * a.height * 6)

\* a 2x2 image with samples whose two bytes differ has been encoded
C12_Witness ==
    /\ TiffDone
    /\ tiff.a.width * tiff.a.height >= 4
    /\ \E i \in 1..Len(tiff.a.pixelsU16) :
         tiff.a.pixelsU16[i] % 256 # tiff.a.pixelsU16[i] \div 256

\* ------------------------------------------------------------------ C13
\* TIFF 6.0: the size of a value of each field type, and where the value of
\* entry k is: in the entry's own last four bytes when it fits there, else at
\* the offset those bytes hold
TypeSize(type) ==
    CASE type = TYPE_ASCII -> 1
      [] type = TYPE_SHORT -> 2
      [] type = TYPE_LONG -> 4
      [] type = TYPE_RATIONAL -> 8
      [] OTHER -> 0
FieldBytes(k) == AsNumber(EntryCount(k)) * TypeSize(EntryType(k))
FieldInline(k) == FieldBytes(k) <= 4
FieldAt(k) == IF FieldInline(k) THEN EntryOffset(k) + 8 ELSE AsNumber(EntryLong(k))

\* the regions of the file as its header and IFD declare them: <<first, size>>
DeclaredRegions ==
    {<<0, 8>>, <<IfdAt, 2 + IfdCount * 12 + 4>>,
     <<AsNumber(EntryLong(The(273))), AsNumber(EntryLong(The(279)))>>}
    \cup {<<FieldAt(k), FieldBytes(k)>> : k \in {n \in 1..IfdCount : ~FieldInline(n)}}

Disjoint(r, q) == r[1] + r[2] <= q[1] \/ q[1] + q[2] <= r[1]

\* the rational at offset o has the numerator word of num and the denominator den
HoldsRational(o, num, den) ==
    /\ \A b \in 0..3 : FileByte(o + b) = ByteOf(num, b)
    /\ IsNumber(ReadU32(o + 4), den)

\* C13: every offset the TIFF declares designates a region of count x
\* type-size bytes inside the output; the regions and the header are pairwise
\* disjoint; each region holds the values it is declared to hold
\* (ImageDescription the description followed by NUL); the output ends where
\* the IFD ends.
C13_OffsetsResolve ==
    TiffDone =>
        LET a == tiff.a
            bpsE == The(258)
            sfE == The(339)
            wpE == The(318)
            pcE == The(319)
            descE == The(270)
            white == IF Len(a.whitePoint) = 2 THEN a.whitePoint ELSE <<3127000, 3290000>>
        IN /\ \A tag \in {258, 339, 318, 319, 270, 273, 279} : HasOne(tag)
           /\ \A r \in DeclaredRegions : InFile(r[1], r[2])
           /\ \A r, q \in DeclaredRegions : r # q => Disjoint(r, q)
           /\ Len(tiff.out) = IfdAt + 2 + IfdCount * 12 + 4
           /\ IsNumber(EntryCount(bpsE), 3) /\ EntryType(bpsE) = TYPE_SHORT
           /\ \A i \in 1..3 : ReadU16(FieldAt(bpsE) + 2 * (i - 1)) = a.bitsPerSampleArr[i]
           /\ IsNumber(EntryCount(sfE), 3) /\ EntryType(sfE) = TYPE_SHORT
           /\ \A i \in 1..3 : ReadU16(FieldAt(sfE) + 2 * (i - 1)) = a.sampleFormatArr[i]
           /\ IsNumber(EntryCount(wpE), 2) /\ EntryType(wpE) = TYPE_RATIONAL
           /\ \A i \in 1..2 : HoldsRational(FieldAt(wpE) + 8 * (i - 1),
                                            toRational(white[i])[1], 1000000)
           /\ IsNumber(EntryCount(pcE), 6) /\ EntryType(pcE) = TYPE_RATIONAL
           /\ \A i \in 1..6 : HoldsRational(FieldAt(pcE) + 8 * (i - 1),
                                            toRational(PrimariesVals(a)[i])[1], 1000000)
           /\ IsNumber(EntryCount(descE), Len(a.imageDescription) + 1)
           /\ EntryType(descE) = TYPE_ASCII
           /\ \A i \in 1..Len(a.imageDescription) :
                FileByte(FieldAt(descE) + i - 1) = a.imageDescription[i]
           /\ FileByte(FieldAt(descE) + Len(a.imageDescription)) = 0

\* ------------------------------------------------------------------ C14
\* the coordinate x (in 1e-7 units) rounded to six decimals, in millionths
Millionths(x) == MathRound(x, CoordDenominator \div 1000000)

\* the RATIONAL at offset o reads as the coordinate x rounded to six
\* decimals: denominator 1,000,000 and the unsigned numerator n with
\* n / 1,000,000 equal to it
ReadsAsCoordinate(o, x) ==
    /\ IsNumber(ReadU32(o + 4), 1000000)
    /\ IsNumber(ReadU32(o), Millionths(x))

\* C14: for the colorimetry of every pipeline, each of the 2 WhitePoint and 6
\* PrimaryChromaticities RATIONALs in the file has denominator 1,000,000 and
\* an unsigned 32-bit numerator n with n / 1,000,000 equal to the coordinate
\* rounded to six decimals.
C14_RationalsExact ==
    (TiffDone /\ tiff.caller = "handler") =>
        LET info == getColorimetryForPipeline(tiff.pipeline)
            vals == <<info.primaries.r[1], info.primaries.r[2], info.primaries.g[1],
                      info.primaries.g[2], info.primaries.b[1], info.primaries.b[2]>>
        IN /\ HasOne(318) /\ HasOne(319)
           /\ \A i \in 1..2 :
                ReadsAsCoordinate(AsNumber(EntryLong(The(318))) + 8 * (i - 1),
                                  info.whitePoint[i])
           /\ \A i \in 1..6 :
                ReadsAsCoordinate(AsNumber(EntryLong(The(319))) + 8 * (i - 1), vals[i])

\* ================================================================ MemSink
\* src/exr test/encode_exr_dwaa_rgba_half.c, lines 15-41: the sink the engine
\* writes the file into.  The block's bytes are kept as layers, oldest first:
\* [lo, hi) holds the byte v; a later layer covers an earlier one.

MaxWrites == 3

\* line 27: the first capacity
MinCapacity == 65536

\* offsets and lengths of the writes, among them the write of 10 bytes at
\* 100000 and writes that cross a capacity
SinkOffsets == {0, 10, 65530, 100000, 131070}
SinkSizes == {0, 10, 65536}

\* what memory realloc hands out may hold: zero, or a used block's old bytes
HeapBytes == {0, 170}

\* line 70-71: MemSink sink; data = NULL; size = 0; capacity = 0
EmptySink ==
    [phase |-> "open", data |-> 0, size |-> 0, capacity |-> 0, mem |-> <<>>,
     calls |-> 0, ret |-> 0, off |-> 0, sz |-> 0,
     size0 |-> 0, capacity0 |-> 0, data0 |-> 0, mem0 |-> <<>>]

\* line 25: need > SIZE_MAX, SIZE_MAX being 2^32 - 1
ExceedsSizeMax(need) == need \div 65536 > 65535

\* lines 27-32 growing to exactly the bytes needed instead of doubling
GrowCapacityExact(newcap, need) == IF newcap >= need THEN newcap ELSE need

\* lines 27-32: the capacity that doubling from newcap reaches for need
RECURSIVE GrowCapacity(_, _)
GrowCapacity(newcap, need) ==
    IF newcap >= need THEN newcap
    ELSE LET next == newcap * 2
         IN IF next < newcap THEN need ELSE GrowCapacity(next, need)

\* the byte at address adr of the block
ByteAt(mem, adr) ==
    LET hits == {k \in 1..Len(mem) : mem[k].lo <= adr /\ adr < mem[k].hi}
        last == CHOOSE k \in hits : \A m \in hits : m <= k
    IN mem[last].v

\* lines 21-41: grow_and_write(s, buf, sz, off) on the sink s, where realloc
\* succeeds or not (ok), the memory it adds holds the byte g, and buf holds
\* sz bytes b
grow_and_write(s, b, sz, off, ok, g) ==
    LET need == off + sz
        before == [s EXCEPT !.calls = @ + 1, !.off = off, !.sz = sz,
                            !.size0 = s.size, !.capacity0 = s.capacity,
                            !.data0 = s.data, !.mem0 = s.mem]
        newcap == GrowCapacity(IF s.capacity # 0 THEN s.capacity ELSE MinCapacity, need)
        grown == IF need > s.capacity
                 THEN [before EXCEPT !.data = s.calls + 1, !.capacity = newcap,
                                     !.mem = Append(@, [lo |-> s.capacity, hi |-> newcap,
                                                        v |-> g])]
                 ELSE before
        copied == [grown EXCEPT !.mem = IF sz > 0
                                        THEN Append(@, [lo |-> off, hi |-> off + sz, v |-> b])
                                        ELSE @]
    IN IF ExceedsSizeMax(need) THEN [before EXCEPT !.ret = -1]
       ELSE IF need > s.capacity /\ ~ok THEN [before EXCEPT !.ret = -1]
       ELSE [copied EXCEPT !.size = IF @ < need THEN need ELSE @, !.ret = sz]

\* lines 43-54: sink_write, the engine's write callback
sink_write ==
    /\ sink.phase = "open"
    /\ sink.calls < MaxWrites
    /\ \E off \in SinkOffsets, sz \in SinkSizes, ok \in BOOLEAN, g \in HeapBytes :
         sink' = grow_and_write(sink, sink.calls + 1, sz, off, ok, g)
    /\ UNCHANGED <<workerVars, tiff, exr, caches>>

SinkInit ==
    /\ WorkerInit
    /\ tiff = NoCall /\ exr = NoCall /\ caches = NoCall
    /\ sink = EmptySink

SinkNext == sink_write

\* the sink under any sequence of writes
SinkSpec == SinkInit /\ [][SinkNext]_vars

\* ------------------------------------------------------------------ C15
\* the addresses where the block's bytes may change value within [lo, hi)
Breakpoints(mem, lo, hi) ==
    {a \in {lo} \cup {mem[k].lo : k \in 1..Len(mem)} \cup {mem[k].hi : k \in 1..Len(mem)} :
        lo <= a /\ a < hi}

\* C15: after a write at an offset beyond the sink's previous logical size,
\* capacity >= off + sz, logical size >= off + sz, and every byte of the gap
\* between the previous logical size and off reads as zero.
C15_GapIsZero ==
    (sink.phase = "open" /\ sink.calls > 0 /\ sink.ret >= 0 /\ sink.off > sink.size0) =>
        /\ sink.capacity >= sink.off + sink.sz
        /\ sink.size >= sink.off + sink.sz
        /\ \A a \in Breakpoints(sink.mem, sink.size0, sink.off) : ByteAt(sink.mem, a) = 0

\* ------------------------------------------------------------------ C16
\* k is 65536 * 2^n for some n >= 0
RECURSIVE IsDoubledMinimum(_)
IsDoubledMinimum(k) ==
    \/ k = 65536
    \/ k > 65536 /\ k % 2 = 0 /\ IsDoubledMinimum(k \div 2)

\* C16: size <= capacity; capacity is 0 or 65536 * 2^k; neither size nor
\* capacity decreases; after a successful write size is the maximum of the old
\* size and off + sz and the call returns sz; a failed write returns -1 and
\* leaves data, size and capacity unchanged.
C16_SinkInvariant ==
    sink.phase = "open" =>
        /\ sink.size <= sink.capacity
        /\ sink.capacity = 0 \/ IsDoubledMinimum(sink.capacity)
        /\ sink.size >= sink.size0 /\ sink.capacity >= sink.capacity0
        /\ sink.calls > 0 =>
             /\ sink.ret \in {sink.sz, -1}
             /\ sink.ret # -1 =>
                  sink.size = IF sink.size0 > sink.off + sink.sz
                              THEN sink.size0 ELSE sink.off + sink.sz
             /\ sink.ret = -1 =>
                  /\ sink.data = sink.data0 /\ sink.mem = sink.mem0
                  /\ sink.size = sink.size0 /\ sink.capacity = sink.capacity0

\* a write beyond the capacity has grown a sink that already held data
C16_Witness ==
    /\ sink.phase = "open" /\ sink.calls >= 2
    /\ sink.ret >= 0 /\ sink.capacity > sink.capacity0 /\ sink.capacity0 > 0
    /\ sink.size0 > 0

\* ========================================================= the EXR engine
\* The arguments the two workers pass (src/raw-worker.js lines 23-80 and
\* src/exr test/exr-worker.js lines 13-58) and the wrapper
\* encode_exr_dwaa_rgba_half (src/exr test/encode_exr_dwaa_rgba_half.c lines
\* 63-162).  A string is the sequence of its characters; a missing option
\* (undefined, null or '') is the empty sequence.

MaxHeight == 5

LowerAlphabet == <<"a", "b", "c", "d", "e", "f", "g", "h", "i", "j", "k", "l", "m",
                   "n", "o", "p", "q", "r", "s", "t", "u", "v", "w", "x", "y", "z">>
UpperAlphabet == <<"A", "B", "C", "D", "E", "F", "G", "H", "I", "J", "K", "L", "M",
                   "N", "O", "P", "Q", "R", "S", "T", "U", "V", "W", "X", "Y", "Z">>

\* String.prototype.toUpperCase
ToUpperCase(str) ==
    [i \in 1..Len(str) |->
        IF \E k \in 1..26 : LowerAlphabet[k] = str[i]
        THEN UpperAlphabet[CHOOSE k \in 1..26 : LowerAlphabet[k] = str[i]]
        ELSE str[i]]

\* src/raw-worker.js lines 23-37
mapExrCompressionToEnum(name) ==
    LET u == ToUpperCase(IF name # <<>> THEN name ELSE <<"D", "W", "A", "A">>)
    IN CASE u = <<"N", "O", "N", "E">> -> 0
         [] u = <<"R", "L", "E">> -> 1
         [] u = <<"Z", "I", "P", "S">> -> 2
         [] u = <<"Z", "I", "P">> -> 3
         [] u = <<"P", "I", "Z">> -> 4
         [] u = <<"P", "X", "R", "2", "4">> -> 5
         [] u = <<"B", "4", "4">> -> 6
         [] u = <<"B", "4", "4", "A">> -> 7
         [] u = <<"D", "W", "A", "B">> -> 9
         [] u = <<"D", "W", "A", "A">> -> 8
         [] OTHER -> 8

\* the switch of lines 46-50 without its break statements
ColourFlagsFallThrough(pipeline) ==
    LET p == IF Truthy(pipeline) THEN pipeline ELSE "ap0-linear"
    IN IF p = "acescct" THEN <<1, 1, 1>>
       ELSE IF p = "arri-logc4" THEN <<1, 0, 1>>
       ELSE <<1, 0, 0>>

\* src/raw-worker.js lines 45-50: <<use_ap0, use_ap1, use_awg4>>
ColourFlags(pipeline) ==
    LET p == IF Truthy(pipeline) THEN pipeline ELSE "ap0-linear"
    IN IF p = "acescct" THEN <<0, 1, 0>>
       ELSE IF p = "arri-logc4" THEN <<0, 0, 1>>
       ELSE <<1, 0, 0>>

\* exr_compression_t ends with EXR_COMPRESSION_LAST_TYPE, which openexr.h of
\* the library the build clones defines (build_openexr_wasm.sh line 22): 10
\* when DWAB (9) is the last method, 12 in the releases with the two HTJ2K
\* methods that the build links libopenjph for (lines 44, 49-52)
LastTypes == {10, 12}

\* encode_exr_dwaa_rgba_half.c lines 87-88
ValidatedCompression(compression, lastType) ==
    IF compression < 0 \/ compression >= lastType THEN 8 ELSE compression

\* line 106-108: the scanlines per chunk the loop steps by
ScanlinesPerChunk(reported) == IF reported <= 0 THEN 32 ELSE reported

\* the steps of one chunk that can fail (lines 117, 120, 138, 141)
ChunkSteps == {"chunk_info", "initialize", "choose_default_routines", "run"}

NoExr ==
    [phase |-> "requested", caller |-> "?", option |-> <<>>, expect |-> 8,
     compression |-> 8, pipeline |-> "", flags |-> <<>>, lastType |-> 10,
     ctype |-> -1, height |-> 1, reported |-> 32, s |-> 0, y0 |-> 0,
     chunks |-> <<>>, failedAt |-> "", result |-> "pending"]

\* src/raw-worker.js lines 41-80: the arguments encodeEXRFromRGB16 passes
BridgeCall ==
    /\ exr.phase = "requested" /\ exr.caller = "raw-worker"
    /\ exr' = [exr EXCEPT !.phase = "entered",
                          !.compression = mapExrCompressionToEnum(exr.option),
                          !.flags = ColourFlags(exr.pipeline)]
    /\ UNCHANGED <<workerVars, tiff, sink, caches>>

\* src/exr test/exr-worker.js lines 24 and 50-52: compression|0 of the message
TestWorkerCall ==
    /\ exr.phase = "requested" /\ exr.caller = "exr-worker"
    /\ exr' = [exr EXCEPT !.phase = "entered"]
    /\ UNCHANGED <<workerVars, tiff, sink, caches>>

\* encode_exr_dwaa_rgba_half.c lines 65-108: up to the chunk loop; a failing
\* library call ends in NULL
EngineStart ==
    /\ exr.phase = "entered"
    /\ \E ok \in BOOLEAN :
         exr' = IF exr.height <= 0 \/ ~ok
                THEN [exr EXCEPT !.phase = "returned", !.result = "NULL",
                                 !.failedAt = "header"]
                ELSE [exr EXCEPT !.phase = "encoding",
                                 !.ctype = ValidatedCompression(exr.compression, exr.lastType),
                                 !.s = ScanlinesPerChunk(exr.reported),
                                 !.y0 = 0]
    /\ UNCHANGED <<workerVars, tiff, sink, caches>>

\* a loop that skips the chunk whose step failed and goes on
ChunkOutcomeSkipping(e, fail) ==
    IF fail = "none"
    THEN [e EXCEPT !.chunks = Append(@, e.y0), !.y0 = @ + e.s]
    ELSE [e EXCEPT !.failedAt = fail, !.y0 = @ + e.s]

\* lines 116-143: the body of the chunk loop for the chunk starting at row
\* y0; a failing step leaves through the fail label (lines 156-161)
ChunkOutcome(e, fail) ==
    IF fail = "none"
    THEN [e EXCEPT !.chunks = Append(@, e.y0), !.y0 = @ + e.s]
    ELSE [e EXCEPT !.phase = "returned", !.result = "NULL", !.failedAt = fail]

\* lines 115-144: one iteration of the chunk loop
EncodeChunk ==
    /\ exr.phase = "encoding"
    /\ exr.y0 < exr.height
    /\ \E fail \in ChunkSteps \cup {"none"} : exr' = ChunkOutcome(exr, fail)
    /\ UNCHANGED <<workerVars, tiff, sink, caches>>

\* lines 146-154: the loop has ended; exr_finish and the copy of the sink
EngineFinish ==
    /\ exr.phase = "encoding"
    /\ ~(exr.y0 < exr.height)
    /\ \E ok \in BOOLEAN :
         exr' = [exr EXCEPT !.phase = "returned",
                            !.result = IF ok THEN "buffer" ELSE "NULL",
                            !.failedAt = IF ok THEN "" ELSE "finish"]
    /\ UNCHANGED <<workerVars, tiff, sink, caches>>

\* heights that make one, several and a last partial chunk
Heights == 1..MaxHeight \cup {33, 65}

\* what exr_get_scanlines_per_chunk can leave in scanlines_per_chunk
ReportedScanlines == {-1, 0, 1, 2, 16, 32}

ToLowerCase(str) ==
    [i \in 1..Len(str) |->
        IF \E k \in 1..26 : UpperAlphabet[k] = str[i]
        THEN LowerAlphabet[CHOOSE k \in 1..26 : UpperAlphabet[k] = str[i]]
        ELSE str[i]]

Capitalised(str) == [i \in 1..Len(str) |-> IF i = 1 THEN str[i] ELSE ToLowerCase(str)[i]]

\* the ten method names of the user-facing option, at index code + 1
CompressionNames ==
    << <<"N", "O", "N", "E">>, <<"R", "L", "E">>, <<"Z", "I", "P", "S">>,
       <<"Z", "I", "P">>, <<"P", "I", "Z">>, <<"P", "X", "R", "2", "4">>,
       <<"B", "4", "4">>, <<"B", "4", "4", "A">>, <<"D", "W", "A", "A">>,
       <<"D", "W", "A", "B">> >>

UnrecognisedNames ==
    {<<"D", "W", "A">>, <<"z", "i", "p", "x">>, <<"H", "T", "J", "2", "K">>, <<" ", "Z", "I", "P">>}

\* option values with the code the option is documented to select
CompressionOptions ==
    UNION {{[option |-> CompressionNames[k], expect |-> k - 1],
            [option |-> ToLowerCase(CompressionNames[k]), expect |-> k - 1],
            [option |-> Capitalised(CompressionNames[k]), expect |-> k - 1]} : k \in 1..10}
    \cup {[option |-> n, expect |-> 8] : n \in UnrecognisedNames \cup {<<>>}}

\* numeric codes a message to the test worker can carry
MessageCodes == -1..12

ExrRequests ==
    {[NoExr EXCEPT !.caller = "raw-worker", !.option = o.option, !.expect = o.expect,
                   !.lastType = t, !.height = h]
        : o \in CompressionOptions, t \in LastTypes, h \in {1, 33}}
    \cup {[NoExr EXCEPT !.caller = "raw-worker", !.pipeline = p, !.height = h]
        : p \in PipelineValues \cup {"undefined"}, h \in {1, 2}}
    \cup {[NoExr EXCEPT !.caller = "raw-worker", !.height = h, !.reported = r]
        : h \in Heights, r \in ReportedScanlines}
    \cup {[NoExr EXCEPT !.caller = "exr-worker", !.compression = c, !.expect = c,
                   !.lastType = t]
        : c \in MessageCodes, t \in LastTypes}

EngineInit ==
    /\ WorkerInit
    /\ tiff = NoCall /\ sink = NoCall /\ caches = NoCall
    /\ exr \in ExrRequests

EngineNext == BridgeCall \/ TestWorkerCall \/ EngineStart \/ EncodeChunk \/ EngineFinish

EngineSpec == EngineInit /\ [][EngineNext]_vars

\* C17: the wrapper encodes the image in chunks of the scanline count the
\* engine reports (32 when it reports nothing positive), in order from row 0,
\* one chunk per started group of that many rows; a step that fails ends the
\* call with NULL and no further chunk.
C17_ChunksInOrder ==
    /\ exr.phase \in {"encoding", "returned"} /\ exr.failedAt # "header" =>
         /\ exr.s = (IF exr.reported > 0 THEN exr.reported ELSE 32)
         /\ \A i \in 1..Len(exr.chunks) : exr.chunks[i] = (i - 1) * exr.s
         /\ \A i \in 1..Len(exr.chunks) : exr.chunks[i] < exr.height
    /\ exr.failedAt \in ChunkSteps => exr.phase = "returned" /\ exr.result = "NULL"
    /\ exr.phase = "returned" /\ exr.result = "buffer" =>
         /\ Len(exr.chunks) = (exr.height + exr.s - 1) \div exr.s
         /\ \A row \in 0..(exr.height - 1) :
              Cardinality({i \in 1..Len(exr.chunks) :
                             exr.chunks[i] <= row /\ row < exr.chunks[i] + exr.s}) = 1
    /\ exr.phase = "returned" /\ exr.failedAt = "finish" =>
         Len(exr.chunks) = (exr.height + exr.s - 1) \div exr.s

\* a three-chunk encode with a partial last chunk that succeeded
C17_Witness ==
    /\ exr.phase = "returned" /\ exr.result = "buffer"
    /\ exr.height = 65 /\ exr.s = 32 /\ exr.chunks = <<0, 32, 64>>

\* a chunk step failed after the first chunk was written
C17_FailureWitness ==
    /\ exr.phase = "returned" /\ exr.result = "NULL"
    /\ exr.failedAt = "run" /\ exr.chunks = <<0>> /\ exr.reported = 0

\* the call has passed the validation of the compression code
PastValidation == exr.phase \in {"encoding", "returned"} /\ exr.failedAt # "header"

\* C18: the code the bridge passes is the enumeration code of the option's
\* name in any letter case, and 8 for a missing or unrecognised option, so it
\* is in 0..9; the engine replaces every code outside 0..9 by 8 and keeps a
\* code in 0..9, so the effective compression is in 0..9.
C18_CompressionInEnumeration ==
    /\ exr.caller = "raw-worker" /\ exr.phase # "requested" =>
         exr.compression = exr.expect /\ exr.compression \in 0..9
    /\ PastValidation =>
         /\ exr.ctype \in 0..9
         /\ exr.compression \notin 0..9 => exr.ctype = 8
         /\ exr.compression \in 0..9 => exr.ctype = exr.compression

\* C19: of the three colour-space flags the bridge passes to the engine
\* exactly one is 1 and the other two are 0: ap1 exactly for 'acescct', awg4
\* exactly for 'arri-logc4', ap0 for every other pipeline value, missing and
\* unknown ones included.
C19_OneColourFlag ==
    exr.caller = "raw-worker" /\ exr.phase # "requested" =>
        /\ Len(exr.flags) = 3
        /\ \A i \in 1..3 : exr.flags[i] \in {0, 1}
        /\ exr.flags[1] + exr.flags[2] + exr.flags[3] = 1
        /\ exr.flags[2] = 1 <=> exr.pipeline = "acescct"
        /\ exr.flags[3] = 1 <=> exr.pipeline = "arri-logc4"
        /\ exr.flags[1] = 1 <=> exr.pipeline \notin {"acescct", "arri-logc4"}

\* the engine was entered for an 'arri-logc4' job with only awg4 set
C19_Witness ==
    /\ exr.caller = "raw-worker" /\ exr.phase = "entered"
    /\ exr.pipeline = "arri-logc4" /\ exr.flags = <<0, 0, 1>>

\* ===================================================== the cached tables
\* The module variables bt709DecodeLUT, ap0ToAwg4Matrix and logc4Consts and
\* the three in-place transforms (src/raw-worker.js lines 97-289).  Objects
\* live on a heap and are named by their index in it; 0 is null.  A transform
\* runs between two awaits of a job (lines 392-403), so it is one step, and
\* the steps of different jobs interleave.

MaxCacheJobs == 3

\* the sample values the jobs' pixels are made of
Levels == <<0, 4096, 32768, 65535>>

LevelIndex(v) == CHOOSE k \in 1..Len(Levels) : Levels[k] = v

\* line 108 and 110-112 for one v above the branch point: Math.pow((e + 0.099)
\* / 1.099, 1 / 0.45), clamped, times 65535 and rounded, evaluated for the
\* sample values of the model
PowerSegment(v) ==
    CASE v = 5309 -> 1176
      [] v = 5310 -> 1176
      [] v = 5311 -> 1177
      [] v = 5312 -> 1177
      [] v = 5313 -> 1177
      [] v = 5314 -> 1177
      [] v = 5315 -> 1178
      [] v = 5316 -> 1178
      [] v = 5317 -> 1178
      [] v = 5318 -> 1178
      [] v = 5319 -> 1178
      [] v = 5320 -> 1179
      [] v = 5321 -> 1179
      [] v = 5322 -> 1179
      [] v = 5323 -> 1179
      [] v = 5324 -> 1180
      [] v = 5325 -> 1180
      [] v = 5326 -> 1180
      [] v = 5327 -> 1180
      [] v = 5328 -> 1180
      [] v = 5329 -> 1181
      [] v = 5330 -> 1181
      [] v = 5331 -> 1181
      [] v = 5332 -> 1181
      [] v = 5333 -> 1181
      [] v = 5334 -> 1182
      [] v = 5335 -> 1182
      [] v = 5336 -> 1182
      [] v = 5337 -> 1182
      [] v = 5338 -> 1183
      [] v = 5339 -> 1183
      [] v = 5340 -> 1183
      [] v = 6144 -> 1369
      [] v = 7168 -> 1628
      [] v = 8192 -> 1912
      [] v = 9216 -> 2221
      [] v = 10240 -> 2556
      [] v = 11264 -> 2917
      [] v = 12288 -> 3304
      [] v = 13312 -> 3717
      [] v = 14336 -> 4158
      [] v = 15360 -> 4626
      [] v = 16384 -> 5122
      [] v = 17408 -> 5646
      [] v = 18432 -> 6197
      [] v = 19456 -> 6777
      [] v = 20480 -> 7386
      [] v = 21504 -> 8024
      [] v = 22528 -> 8691
      [] v = 23552 -> 9387
      [] v = 24576 -> 10113
      [] v = 25600 -> 10869
      [] v = 26624 -> 11655
      [] v = 27648 -> 12471
      [] v = 28672 -> 13318
      [] v = 29696 -> 14195
      [] v = 30720 -> 15103
      [] v = 31744 -> 16042
      [] v = 32768 -> 17013
      [] v = 33792 -> 18015
      [] v = 34816 -> 19048
      [] v = 35840 -> 20113
      [] v = 36864 -> 21211
      [] v = 37888 -> 22340
      [] v = 38912 -> 23502
      [] v = 39936 -> 24696
      [] v = 40960 -> 25923
      [] v = 41984 -> 27183
      [] v = 43008 -> 28475
      [] v = 44032 -> 29801
      [] v = 45056 -> 31160
      [] v = 46080 -> 32553
      [] v = 47104 -> 33978
      [] v = 48128 -> 35438
      [] v = 49152 -> 36932
      [] v = 50176 -> 38459
      [] v = 51200 -> 40021
      [] v = 52224 -> 41616
      [] v = 53248 -> 43246
      [] v = 54272 -> 44911
      [] v = 55296 -> 46611
      [] v = 56320 -> 48345
      [] v = 57344 -> 50114
      [] v = 58368 -> 51918
      [] v = 59392 -> 53757
      [] v = 60416 -> 55631
      [] v = 61440 -> 57541
      [] v = 62464 -> 59487
      [] v = 63488 -> 61468
      [] v = 64512 -> 63484
      [] v = 65530 -> 65525
      [] v = 65531 -> 65527
      [] v = 65532 -> 65529
      [] v = 65533 -> 65531
      [] v = 65534 -> 65533
      [] v = 65535 -> 65535

\* line 105: e <= 0.081 for e = v / 65535
InLinearSegment(v) == v * 1000 <= 81 * 65535

\* lines 103-112 with the linear law e / 4.5 on both sides of the branch
BT709DecodeLinearOnly(v) == MathRound(v * 10, 45)

\* lines 103-112 for one v: e / 4.5 up to e = 0.081, the power law above it
BT709Decode(v) ==
    IF InLinearSegment(v) THEN MathRound(v * 10, 45) ELSE PowerSegment(v)

\* lines 101-113: the table, here at the sample levels
ComputeLUT == [k \in 1..Len(Levels) |-> BT709Decode(Levels[k])]

\* lines 225-243: T, row-major, in units of 1e-6
ComputeAp0ToAwg4 ==
    <<1331325, -188908, -142417, -1851, 994885, 6966, 1078, -3407, 1002329>>

\* lines 251-256: a, b, c, s, t in units of 1e-5
ComputeLogC4Consts == <<223182631, 90714, 9286, 11360, -1806>>

NoCaches ==
    [phase |-> "serving", heap |-> <<>>,
     bt709DecodeLUT |-> 0, ap0ToAwg4Matrix |-> 0, logc4Consts |-> 0,
     computed |-> [lut |-> 0, matrix |-> 0, consts |-> 0],
     returned |-> {}, written |-> {},
     jobs |-> [j \in 1..MaxCacheJobs |-> [stage |-> "idle", pipeline |-> "", buf |-> 0]]]

\* the value a cache function returns, with the state it leaves
Returning(c, which, id) ==
    [c |-> [c EXCEPT !.returned = @ \cup {<<which, id>>}], ret |-> id]

\* an init function without the test of its first line
initBT709DecodeLUTUnguarded(c) ==
    LET id == Len(c.heap) + 1
    IN Returning([c EXCEPT !.heap = Append(@, ComputeLUT),
                           !.bt709DecodeLUT = id,
                           !.computed.lut = @ + 1], "lut", id)

\* lines 99-116
initBT709DecodeLUT(c) ==
    IF c.bt709DecodeLUT # 0 THEN Returning(c, "lut", c.bt709DecodeLUT)
    ELSE LET id == Len(c.heap) + 1
         IN Returning([c EXCEPT !.heap = Append(@, ComputeLUT),
                                !.bt709DecodeLUT = id,
                                !.computed.lut = @ + 1], "lut", id)

\* lines 223-246
ensureAp0ToAwg4Matrix(c) ==
    IF c.ap0ToAwg4Matrix # 0 THEN Returning(c, "matrix", c.ap0ToAwg4Matrix)
    ELSE LET id == Len(c.heap) + 1
         IN Returning([c EXCEPT !.heap = Append(@, ComputeAp0ToAwg4),
                                !.ap0ToAwg4Matrix = id,
                                !.computed.matrix = @ + 1], "matrix", id)

\* lines 249-258
ensureLogC4Consts(c) ==
    IF c.logc4Consts # 0 THEN Returning(c, "consts", c.logc4Consts)
    ELSE LET id == Len(c.heap) + 1
         IN Returning([c EXCEPT !.heap = Append(@, ComputeLogC4Consts),
                                !.logc4Consts = id,
                                !.computed.consts = @ + 1], "consts", id)

\* lut[u16[i]] for the three samples of the pixel of buffer u16
Decoded(c, lut, u16) == [i \in 1..3 |-> c.heap[lut][LevelIndex(c.heap[u16][i])]]

\* lines 129-155 for one decoded pixel: the AP0 to AP1 matrix and the
\* ACEScct curve, evaluated for the decoded pixels of the model
EncodeACEScct(lin) ==
    CASE lin = <<0, 0, 0>> -> <<4778, 4778, 4778>>
      [] lin = <<65535, 65535, 65535>> -> <<36358, 36358, 36358>>
      [] lin = <<910, 17013, 65535>> -> <<0, 27796, 36338>>
      [] lin = <<65535, 0, 910>> -> <<38358, 0, 15803>>

\* lines 268-288 for one decoded pixel, with the matrix M and the constants
\* k read from the caches
EncodeAWG4LogC4(M, k, lin) ==
    CASE M = ComputeAp0ToAwg4 /\ k = ComputeLogC4Consts /\ lin = <<0, 0, 0>> ->
             <<6086, 6086, 6086>>
      [] M = ComputeAp0ToAwg4 /\ k = ComputeLogC4Consts /\ lin = <<65535, 65535, 65535>> ->
             <<28017, 28017, 28017>>
      [] M = ComputeAp0ToAwg4 /\ k = ComputeLogC4Consts /\ lin = <<910, 17013, 65535>> ->
             <<0, 20342, 28026>>
      [] M = ComputeAp0ToAwg4 /\ k = ComputeLogC4Consts /\ lin = <<65535, 0, 910>> ->
             <<29719, 5699, 8663>>

\* the stores of a transform: u16[i] = ... and nothing else
StoreInto(c, u16, samples) ==
    [c EXCEPT !.heap[u16] = samples, !.written = @ \cup {u16}]

\* lines 118-123
applyBT709DecodeInPlace(c, u16) ==
    LET l == initBT709DecodeLUT(c)
    IN StoreInto(l.c, u16, Decoded(l.c, l.ret, u16))

\* lines 126-157
apply709ToACEScctInPlace(c, u16) ==
    LET l == initBT709DecodeLUT(c)
    IN StoreInto(l.c, u16, EncodeACEScct(Decoded(l.c, l.ret, u16)))

\* lines 261-278
apply709ToAWG4LogC4InPlace(c, u16) ==
    LET l == initBT709DecodeLUT(c)
        m == ensureAp0ToAwg4Matrix(l.c)
        k == ensureLogC4Consts(m.c)
    IN StoreInto(k.c, u16,
                 EncodeAWG4LogC4(k.c.heap[m.ret], k.c.heap[k.ret],
                                 Decoded(k.c, l.ret, u16)))

\* the pixels a decoded image can hold (one pixel per image)
CachePixels == {<<4096, 32768, 65535>>, <<65535, 0, 4096>>}

CachePipelines == {"", "ap0-linear", "acescct", "arri-logc4"}

\* lines 355-389: a job has its 16-bit samples in a buffer of its own; the
\* jobs are numbered in the order in which they get there
PixelsPrepared ==
    /\ caches.phase = "serving"
    /\ \E j \in 1..MaxCacheJobs, p \in CachePipelines, px \in CachePixels :
         /\ caches.jobs[j].stage = "idle"
         /\ \A i \in 1..(j - 1) : caches.jobs[i].stage # "idle"
         /\ caches' = [caches EXCEPT
                          !.heap = Append(@, px),
                          !.jobs[j] = [stage |-> "prepared", pipeline |-> p,
                                       buf |-> Len(caches.heap) + 1]]
    /\ UNCHANGED <<workerVars, tiff, sink, exr>>

\* lines 392-403: the transform of the job's pipeline runs on its buffer
RunTransform ==
    /\ caches.phase = "serving"
    /\ \E j \in 1..MaxCacheJobs :
         /\ caches.jobs[j].stage = "prepared"
         /\ LET t == TransformFor(caches.jobs[j].pipeline)
                u16 == caches.jobs[j].buf
                c == IF t = "apply709ToACEScctInPlace"
                     THEN apply709ToACEScctInPlace(caches, u16)
                     ELSE IF t = "apply709ToAWG4LogC4InPlace"
                          THEN apply709ToAWG4LogC4InPlace(caches, u16)
                          ELSE applyBT709DecodeInPlace(caches, u16)
            IN caches' = [c EXCEPT !.jobs[j].stage = "transformed"]
    /\ UNCHANGED <<workerVars, tiff, sink, exr>>

CachesInit ==
    /\ WorkerInit
    /\ tiff = NoCall /\ sink = NoCall /\ exr = NoCall
    /\ caches = NoCaches

CachesNext == PixelsPrepared \/ RunTransform

CachesSpec == CachesInit /\ [][CachesNext]_vars

\* the objects the module variables hold
CachedObjects ==
    {caches.bt709DecodeLUT, caches.ap0ToAwg4Matrix, caches.logc4Consts} \ {0}

\* C20: over any jobs in any interleaving the decode LUT, the AP0 to AWG4
\* matrix and the LogC4 constants are each computed at most once, every call
\* returns the one cached object with the value it was computed with, and no
\* transform writes into a cached object.
C20_CachesComputedOnce ==
    caches.phase = "serving" =>
        /\ caches.computed.lut <= 1
        /\ caches.computed.matrix <= 1
        /\ caches.computed.consts <= 1
        /\ \A r1, r2 \in caches.returned : r1[1] = r2[1] => r1[2] = r2[2]
        /\ \A r \in caches.returned :
             r[2] = (CASE r[1] = "lut" -> caches.bt709DecodeLUT
                       [] r[1] = "matrix" -> caches.ap0ToAwg4Matrix
                       [] r[1] = "consts" -> caches.logc4Consts)
        /\ caches.written \cap CachedObjects = {}
        /\ caches.bt709DecodeLUT # 0 =>
             caches.heap[caches.bt709DecodeLUT] = <<0, 910, 17013, 65535>>
        /\ caches.ap0ToAwg4Matrix # 0 =>
             caches.heap[caches.ap0ToAwg4Matrix] = ComputeAp0ToAwg4
        /\ caches.logc4Consts # 0 =>
             caches.heap[caches.logc4Consts] = ComputeLogC4Consts

\* three jobs, one per transform, have all run and each table was computed
C20_Witness ==
    /\ caches.phase = "serving"
    /\ \A j \in 1..3 : caches.jobs[j].stage = "transformed"
    /\ {TransformFor(caches.jobs[j].pipeline) : j \in 1..3} =
         {"applyBT709DecodeInPlace", "apply709ToACEScctInPlace", "apply709ToAWG4LogC4InPlace"}
    /\ caches.computed = [lut |-> 1, matrix |-> 1, consts |-> 1]
    /\ Cardinality(caches.written) = 3

\* ============================================ dimensions and decoder shapes
\* the named stage of job j has started
StageRan(j, name) == \E k \in 1..Len(job[j].trace) : job[j].trace[k] = name

\* C21: each of width and height is the value imageData supplies when that
\* value is nonzero and the value of metadata otherwise, metadata being
\* consulted only when imageData leaves a dimension out (a metadata call that
\* throws or rejects supplies nothing); a job with a dimension still zero
\* fails with 'Missing dimensions' and posts neither 'dimensions' nor
\* 'pixels-prepared'.
C21_DimensionsPreferImageData ==
    \A j \in Jobs :
        LET c == job[j]
        IN StageRan(j, "dimensions") =>
             /\ ObjWidth(c.img) # 0 => c.width = ObjWidth(c.img)
             /\ ObjHeight(c.img) # 0 => c.height = ObjHeight(c.img)
             /\ ObjWidth(c.img) = 0 => c.width = ObjWidth(c.meta)
             /\ ObjHeight(c.img) = 0 => c.height = ObjHeight(c.meta)
             /\ (\E k \in 1..Len(c.instCalls) : c.instCalls[k] = "metadata")
                  => NeedsMeta(c.img)
             /\ (c.width = 0 \/ c.height = 0) =>
                  /\ pc[j] = "failed" /\ ~HasResult(j)
                  /\ TerminalsOf(j)[1].error = "Missing dimensions"
                  /\ \A k \in 1..Len(StagesOf(j)) :
                       StagesOf(j)[k] \notin {"dimensions", "pixels-prepared"}

\* the jobs whose own call of LibRawModule(...) produced a decoder module
LibRawInstances == {j \in Jobs : job[j].env.libraw = "ok"}

\* C22: the decoder module and the engine module are each instantiated at
\* most once in a worker, also when a second 'process' message is handled
\* while the first job still awaits the instantiation.
C22_ModulesInstantiatedOnce ==
    /\ Cardinality(LibRawInstances) <= 1
    /\ libRawLoads <= 1
    /\ exrLoads <= 1

\* the result shapes the handler's normalisation names (lines 350-361)
EnumeratedShapes == {"U8", "U16", "ObjU8", "ObjU16", "ObjAB", "AB"}

\* C23: a decoder result of every shape the handler enumerates (a Uint8Array,
\* a Uint16Array, an object whose data, buffer or bytes field is a typed array
\* or an ArrayBuffer, a bare ArrayBuffer) is normalised to a pixel view over
\* its bytes; a bare ArrayBuffer of width*height*6 bytes with dimensions from
\* metadata reaches 'pixels-prepared' and does not fail with 'Unexpected
\* imageData type'.
C23_EveryShapeNormalised ==
    \A j \in Jobs :
        LET c == job[j]
        IN StageRan(j, "normalise") =>
             /\ c.img.kind \in EnumeratedShapes =>
                  /\ c.view.kind \in {"U8", "U16"}
                  /\ c.view.len = c.img.len
                  /\ c.err # "Unexpected imageData type"
             /\ (c.img.kind = "AB" /\ c.img.len = c.width * c.height * 6) =>
                  \E k \in 1..Len(StagesOf(j)) : StagesOf(j)[k] = "pixels-prepared"

\* ============================================ the MemSink at full width
\* grow_and_write with operands over the whole unsigned 64-bit range
\* (src/exr test/encode_exr_dwaa_rgba_half.c lines 21-41).  A uint64_t is
\* four 16-bit limbs, most significant first; size_t has 32 bits in the
\* engine build, whose heap stays below 2^31 bytes, so a capacity is a plain
\* number.

MaxWideWrites == 2

\* the base of a limb
Limb == 65536

U64(n) == <<0, 0, n \div Limb, n % Limb>>

\* x + y in uint64_t: the sum modulo 2^64
Add64(x, y) ==
    LET s4 == x[4] + y[4]
        s3 == x[3] + y[3] + s4 \div Limb
        s2 == x[2] + y[2] + s3 \div Limb
        s1 == x[1] + y[1] + s2 \div Limb
    IN <<s1 % Limb, s2 % Limb, s3 % Limb, s4 % Limb>>

\* x + y does not fit in 64 bits
Wraps64(x, y) ==
    LET s4 == x[4] + y[4]
        s3 == x[3] + y[3] + s4 \div Limb
        s2 == x[2] + y[2] + s3 \div Limb
        s1 == x[1] + y[1] + s2 \div Limb
    IN s1 \div Limb > 0

\* x <= y
Le64(x, y) ==
    \/ x = y
    \/ \E k \in 1..4 : x[k] < y[k] /\ \A i \in 1..(k - 1) : x[i] = y[i]

\* (size_t)x: the low 32 bits
SizeT(x) == <<0, 0, x[3], x[4]>>

\* line 25: need > SIZE_MAX
ExceedsSizeMax64(need) == need[1] # 0 \/ need[2] # 0

\* lines 27-33 for a need above 2^30: doubling reaches 2^31 or more, or wraps
\* and takes need itself (line 30); realloc cannot supply a block of that size
BeyondHeap(need) == ~Le64(need, <<0, 0, 16384, 0>>)

\* the value of a uint64_t below 2^31
Value(x) == x[3] * Limb + x[4]

EmptyWideSink ==
    [phase |-> "wide", size |-> 0, capacity |-> 0, calls |-> 0,
     off |-> U64(0), sz |-> U64(0), ret |-> "none", copied |-> FALSE,
     at |-> U64(0), n |-> U64(0)]

\* lines 21-41 without the writes to memory: the return value (sz or -1),
\* whether memcpy ran, and its destination offset and length
grow_and_write64(s, sz, off, ok) ==
    LET need == Add64(off, sz)
        called == [s EXCEPT !.calls = @ + 1, !.off = off, !.sz = sz,
                            !.copied = FALSE, !.at = U64(0), !.n = U64(0)]
        failed == [called EXCEPT !.ret = "-1"]
    IN IF ExceedsSizeMax64(need) THEN failed
       ELSE IF ~Le64(need, U64(s.capacity)) /\ (BeyondHeap(need) \/ ~ok) THEN failed
       ELSE LET newcap == IF Le64(need, U64(s.capacity)) THEN s.capacity
                          ELSE GrowCapacity(IF s.capacity # 0 THEN s.capacity
                                            ELSE MinCapacity, Value(need))
            IN [called EXCEPT !.capacity = newcap,
                              !.copied = TRUE, !.at = SizeT(off), !.n = SizeT(sz),
                              !.size = IF @ < Value(need) THEN Value(need) ELSE @,
                              !.ret = "sz"]

\* operands from the whole range: small ones, ones around 2^31 and 2^32, and
\* ones whose sum passes 2^64
WideOperands ==
    {U64(0), U64(10), U64(20), U64(65536), U64(100000),
     <<0, 0, 32768, 0>>, <<0, 0, 65535, 65535>>, <<0, 1, 0, 0>>,
     <<65535, 65535, 0, 0>>, <<65535, 65535, 65535, 65526>>,
     <<65535, 65535, 65535, 65535>>}

\* lines 43-54: sink_write called with any operands
sink_write64 ==
    /\ sink.phase = "wide"
    /\ sink.calls < MaxWideWrites
    /\ \E off \in WideOperands, sz \in WideOperands, ok \in BOOLEAN :
         sink' = grow_and_write64(sink, sz, off, ok)
    /\ UNCHANGED <<workerVars, tiff, exr, caches>>

WideSinkInit ==
    /\ WorkerInit
    /\ tiff = NoCall /\ exr = NoCall /\ caches = NoCall
    /\ sink = EmptyWideSink

WideSinkNext == sink_write64

WideSinkSpec == WideSinkInit /\ [][WideSinkNext]_vars

\* C24: a call of grow_and_write either returns -1 without copying, or copies
\* while off + sz, computed without wrap-around, is at most the capacity.
C24_CopyInsideStorage ==
    (sink.phase = "wide" /\ sink.calls > 0) =>
        \/ sink.ret = "-1" /\ ~sink.copied
        \/ /\ sink.copied
           /\ ~Wraps64(sink.off, sink.sz)
           /\ Le64(Add64(sink.off, sink.sz), U64(sink.capacity))

\* ================================================= filling the decode LUT
\* The loop of initBT709DecodeLUT (src/raw-worker.js lines 101-115) over the
\* sample values of LutDomain, in ascending order as the loop visits them:
\* the first values, the values around the branch point (5308 is the last v
\* with v / 65535 <= 0.081), every 1024th value and the last values.
LutDomain ==
    <<0, 1, 2, 3, 4, 5, 6, 7, 8, 9, 1024, 2048, 3072, 4096, 5120, 5290,
      5291, 5292, 5293, 5294, 5295, 5296, 5297, 5298, 5299, 5300, 5301,
      5302, 5303, 5304, 5305, 5306, 5307, 5308, 5309, 5310, 5311, 5312,
      5313, 5314, 5315, 5316, 5317, 5318, 5319, 5320, 5321, 5322, 5323,
      5324, 5325, 5326, 5327, 5328, 5329, 5330, 5331, 5332, 5333, 5334,
      5335, 5336, 5337, 5338, 5339, 5340, 6144, 7168, 8192, 9216, 10240,
      11264, 12288, 13312, 14336, 15360, 16384, 17408, 18432, 19456, 20480,
      21504, 22528, 23552, 24576, 25600, 26624, 27648, 28672, 29696, 30720,
      31744, 32768, 33792, 34816, 35840, 36864, 37888, 38912, 39936, 40960,
      41984, 43008, 44032, 45056, 46080, 47104, 48128, 49152, 50176, 51200,
      52224, 53248, 54272, 55296, 56320, 57344, 58368, 59392, 60416, 61440,
      62464, 63488, 64512, 65530, 65531, 65532, 65533, 65534, 65535>>

EmptyLUT == [phase |-> "filling", lut |-> <<>>, bt709DecodeLUT |-> "null"]

\* lines 102-113: one iteration, lut[v] = Math.round(l * 65535)
FillEntry ==
    /\ caches.phase = "filling"
    /\ Len(caches.lut) < Len(LutDomain)
    /\ caches' = [caches EXCEPT
                    !.lut = Append(@, BT709Decode(LutDomain[Len(caches.lut) + 1]))]
    /\ UNCHANGED <<workerVars, tiff, sink, exr>>

\* lines 114-115: bt709DecodeLUT = lut
StoreLUT ==
    /\ caches.phase = "filling"
    /\ Len(caches.lut) = Len(LutDomain)
    /\ caches' = [caches EXCEPT !.phase = "filled", !.bt709DecodeLUT = "lut"]
    /\ UNCHANGED <<workerVars, tiff, sink, exr>>

LutInit ==
    /\ WorkerInit
    /\ tiff = NoCall /\ sink = NoCall /\ exr = NoCall
    /\ caches = EmptyLUT

LutNext == FillEntry \/ StoreLUT

LutSpec == LutInit /\ [][LutNext]_vars

\* the table is being filled or is filled
LutState == caches.phase \in {"filling", "filled"}

\* the entry of the table for the value v
LutAt(v) == caches.lut[CHOOSE k \in 1..Len(LutDomain) : LutDomain[k] = v]

\* C25: the decode table is non-decreasing over its whole domain, across the
\* branch point e = 0.081 too: lut[v1] <= lut[v2] for all v1 <= v2, with
\* lut[0] = 0 and lut[65535] = 65535.
C25_LutMonotone ==
    LutState =>
        /\ \A i, k \in 1..Len(caches.lut) : i <= k => caches.lut[i] <= caches.lut[k]
        /\ caches.phase = "filled" => LutAt(0) = 0 /\ LutAt(65535) = 65535

\* C25 as it holds: the decode table is non-decreasing on each of its two
\* segments, the values up to the branch point (v <= 5308) and the values
\* above it, with lut[0] = 0 and lut[65535] = 65535.
C25_LutMonotoneBySegment ==
    LutState =>
        /\ \A i, k \in 1..Len(caches.lut) :
             (i <= k /\ InLinearSegment(LutDomain[i]) = InLinearSegment(LutDomain[k]))
                => caches.lut[i] <= caches.lut[k]
        /\ caches.phase = "filled" => LutAt(0) = 0 /\ LutAt(65535) = 65535

\* the table is filled and stored, with its entries on both sides of the
\* branch point
C25_Witness ==
    /\ caches.phase = "filled" /\ caches.bt709DecodeLUT = "lut"
    /\ Len(caches.lut) = Len(LutDomain)
    /\ LutAt(5308) = 1180 /\ LutAt(5309) = 1176

\* ======================================================= the TIFF reader
\* readTIFFRGBA16 (src/exr test/encode_exr_dwaa_rgba_half.c lines 169-280) on
\* the bytes f of a file, byte 0 being element 1.  A read outside the buffer
\* and a typed-array view or copy outside its bounds throw a RangeError.

\* the n bytes from offset o lie in the buffer
Within(f, o, n) == 0 <= o /\ o + n <= Len(f)

\* dv.getUint16(o, le) and dv.getUint32(o, le)
GetUint16(f, o, le) ==
    IF le THEN f[o + 1] + 256 * f[o + 2] ELSE 256 * f[o + 1] + f[o + 2]
GetUint32(f, o, le) ==
    IF le THEN GetUint16(f, o, le) + 65536 * GetUint16(f, o + 2, le)
    ELSE 65536 * GetUint16(f, o, le) + GetUint16(f, o + 2, le)

\* line 178-179: the fields before the directory is read; a null array is <<>>
NoFields ==
    [width |-> 0, height |-> 0, bitsPerSample |-> 0, samplesPerPixel |-> 0,
     photometric |-> 0, compression |-> 1, planar |-> 1,
     stripOffsets |-> <<>>, rowsPerStrip |-> 0, stripByteCounts |-> <<>>,
     err |-> ""]

\* (type === 3) ? read16(valOff) : read32(valOff)
ReadValue(f, type, valOff, le) ==
    IF type = 3 THEN GetUint16(f, valOff, le) ELSE GetUint32(f, valOff, le)

\* lines 223-229 and 235-241: one value inline, or count LONGs at an offset
ReadLongs(f, count, valOff, le) ==
    IF count = 1 THEN <<GetUint32(f, valOff, le)>>
    ELSE [k \in 1..count |-> GetUint32(f, GetUint32(f, valOff, le) + 4 * (k - 1), le)]

\* lines 181-245: the directory entry at off applied to the fields r
ReadEntry(f, r, off, le) ==
    LET tag == GetUint16(f, off, le)
        type == GetUint16(f, off + 2, le)
        count == GetUint32(f, off + 4, le)
        valOff == off + 8
        v == ReadValue(f, type, valOff, le)
        arrOff == GetUint32(f, valOff, le)
    IN CASE tag = 256 -> [r EXCEPT !.width = v]
         [] tag = 257 -> [r EXCEPT !.height = v]
         [] tag = 258 ->
              IF count = 1 THEN [r EXCEPT !.bitsPerSample = v]
              ELSE IF ~Within(f, arrOff, 2 * count) THEN [r EXCEPT !.err = "RangeError"]
              ELSE IF \E k \in 1..count :
                        GetUint16(f, arrOff + 2 * (k - 1), le) # GetUint16(f, arrOff, le)
                   THEN [r EXCEPT !.err = "Mixed BitsPerSample not supported"]
                   ELSE [r EXCEPT !.bitsPerSample =
                                     IF count = 0 THEN @ ELSE GetUint16(f, arrOff, le)]
         [] tag = 262 -> [r EXCEPT !.photometric = v]
         [] tag = 259 -> [r EXCEPT !.compression = v]
         [] tag = 277 -> [r EXCEPT !.samplesPerPixel = v]
         [] tag = 284 -> [r EXCEPT !.planar = v]
         [] tag = 273 ->
              IF count # 1 /\ ~Within(f, arrOff, 4 * count) THEN [r EXCEPT !.err = "RangeError"]
              ELSE [r EXCEPT !.stripOffsets = ReadLongs(f, count, valOff, le)]
         [] tag = 278 -> [r EXCEPT !.rowsPerStrip = v]
         [] tag = 279 ->
              IF count # 1 /\ ~Within(f, arrOff, 4 * count) THEN [r EXCEPT !.err = "RangeError"]
              ELSE [r EXCEPT !.stripByteCounts = ReadLongs(f, count, valOff, le)]
         [] OTHER -> r

\* lines 180-246: the entries i .. numDir - 1 in order
RECURSIVE ReadDirectory(_, _, _, _, _, _)
ReadDirectory(f, r, ifdOffset, i, numDir, le) ==
    IF i >= numDir \/ r.err # "" THEN r
    ELSE IF ~Within(f, ifdOffset + 2 + i * 12, 12) THEN [r EXCEPT !.err = "RangeError"]
    ELSE ReadDirectory(f, ReadEntry(f, r, ifdOffset + 2 + i * 12, le),
                       ifdOffset, i + 1, numDir, le)

\* line 261 reading bytes 16-bit elements instead of bytes >>> 1
StripViewOfBytes(f, off, bytes) ==
    IF off % 2 # 0 \/ ~Within(f, off, 2 * bytes) THEN [err |-> "RangeError", src |-> <<>>]
    ELSE [err |-> "",
          src |-> [k \in 1..bytes |-> GetUint16(f, off + 2 * (k - 1), TRUE)]]

\* line 261: new Uint16Array(arrayBuffer, off, bytes >>> 1), whose elements
\* are in the byte order of the platform (little-endian)
StripView(f, off, bytes) ==
    LET n == bytes \div 2
    IN IF off % 2 # 0 \/ ~Within(f, off, 2 * n) THEN [err |-> "RangeError", src |-> <<>>]
       ELSE [err |-> "",
             src |-> [k \in 1..n |-> GetUint16(f, off + 2 * (k - 1), TRUE)]]

\* lines 257-264: strips s .. into out at writePos (counts[s] of a missing
\* element is undefined, and undefined >>> 1 is 0)
RECURSIVE ConcatenateStrips(_, _, _, _, _, _)
ConcatenateStrips(f, out, offsets, counts, s, writePos) ==
    IF s > Len(offsets) \/ out.err # "" THEN out
    ELSE LET view == StripView(f, offsets[s], IF s <= Len(counts) THEN counts[s] ELSE 0)
             n == Len(view.src)
         IN IF view.err # "" THEN [out EXCEPT !.err = view.err]
            ELSE IF writePos + n > Len(out.rgba16) THEN [out EXCEPT !.err = "RangeError"]
            ELSE ConcatenateStrips(f,
                   [out EXCEPT !.rgba16 =
                      [k \in 1..Len(out.rgba16) |->
                          IF writePos < k /\ k <= writePos + n
                          THEN view.src[k - writePos] ELSE out.rgba16[k]]],
                   offsets, counts, s + 1, writePos + n)

\* lines 265-278: the copy rgb of the first numPixels * 3 elements, spread
\* over four channels with an opaque alpha
ExpandRGB(rgba16, numPixels) ==
    LET rgb == SubSeq(rgba16, 1, numPixels * 3)
    IN [k \in 1..Len(rgba16) |->
          IF (k - 1) % 4 = 3 THEN 65535 ELSE rgb[((k - 1) \div 4) * 3 + ((k - 1) % 4) + 1]]

\* lines 169-280: the returned { width, height, rgba16 }, or the error thrown
readTIFFRGBA16(f) ==
    LET Fail(msg) == [err |-> msg, width |-> 0, height |-> 0, rgba16 |-> <<>>]
    IN IF ~Within(f, 0, 4) THEN Fail("RangeError")
       ELSE
       LET le == f[1] = 73 /\ f[2] = 73
           magic == GetUint16(f, 2, le)
       IN IF magic # 42 THEN Fail("Not a TIFF file")
          ELSE IF ~Within(f, 4, 4) THEN Fail("RangeError")
          ELSE
          LET ifdOffset == GetUint32(f, 4, le)
          IN IF ~Within(f, ifdOffset, 2) THEN Fail("RangeError")
             ELSE
             LET numDir == GetUint16(f, ifdOffset, le)
                 r == ReadDirectory(f, NoFields, ifdOffset, 0, numDir, le)
                 numPixels == r.width * r.height
                 blank == [err |-> "", rgba16 |-> [k \in 1..(numPixels * 4) |-> 0]]
                 out == ConcatenateStrips(f, blank, r.stripOffsets, r.stripByteCounts, 1, 0)
             IN IF r.err # "" THEN Fail(r.err)
                ELSE IF r.compression # 1 THEN Fail("Only uncompressed TIFF supported")
                ELSE IF r.planar # 1 THEN Fail("Only contiguous planar TIFF supported")
                ELSE IF r.bitsPerSample # 16 THEN Fail("Only 16-bit Samples supported")
                ELSE IF r.samplesPerPixel \notin {3, 4} THEN Fail("Expected RGB or RGBA")
                ELSE IF out.err # "" THEN Fail(out.err)
                ELSE [err |-> "", width |-> r.width, height |-> r.height,
                      rgba16 |-> IF r.samplesPerPixel = 3
                                 THEN ExpandRGB(out.rgba16, numPixels)
                                 ELSE out.rgba16]

\* C26: reading back what the TIFF encoder wrote is lossless: readTIFFRGBA16
\* on the encoder's output returns the width and the height of the call and
\* an rgba16 array with the three samples of every pixel in channels 0..2 and
\* 65535 in channel 3.
C26_ReadBackLossless ==
    TiffDone =>
        LET a == tiff.a
            back == readTIFFRGBA16(tiff.out)
        IN /\ back.err = ""
           /\ back.width = a.width /\ back.height = a.height
           /\ Len(back.rgba16) = a.width * a.height * 4
           /\ \A i \in 0..(a.width * a.height - 1) :
                /\ \A c \in 0..2 : back.rgba16[4 * i + c + 1] = a.pixelsU16[3 * i + c + 1]
                /\ back.rgba16[4 * i + 3 + 1] = 65535

\* a 2 x 2 image whose samples differ from pixel to pixel was written and
\* read back
C26_Witness ==
    /\ TiffDone
    /\ tiff.a.width = 2 /\ tiff.a.height = 2
    /\ tiff.a.pixelsU16[1] # tiff.a.pixelsU16[4]
    /\ readTIFFRGBA16(tiff.out).err = ""
    /\ Len(readTIFFRGBA16(tiff.out).rgba16) = 16
====
